---- MODULE Spec2Model ----
(***************************************************************************)
(* Family calendar: the events API (src/app/api/events/route.ts) and the   *)
(* page that polls it (src/app/page.tsx).                                  *)
(*                                                                         *)
(*   Spec        one server process answering GET /api/events: reading     *)
(*               ICS_URLS, the fan-out of fetchIcs over the feeds, the     *)
(*               fan-in, parsing/expansion, merge, sort and the response.  *)
(*   ClientSpec  the mounted HomePage: the 60 s interval, overlapping      *)
(*               loadEvents runs, the 5 min cooldown timers, and the       *)
(*               events / error component state.                           *)
(*                                                                         *)
(*   FetchSpec   one fetchIcs call watched second by second: the race of   *)
(*               fetch against the 15 s timer, the read of the body, the   *)
(*               backoff waits, the console lines.                         *)
(*                                                                         *)
(*   ConfigSpec  the server process from the load of the route module on:  *)
(*               process.env changing between runs of GET over one feed.   *)
(*   DaySpec     the byDay memo of the page computed for a list of events  *)
(*               and a local date.                                         *)
(*   MemoSpec    the mounted page over several local days: loads that end, *)
(*               the date changing, renders, and the byDay memo.           *)
(*   TextSpec    runs of GET /api/events over one feed whose instances     *)
(*               have missing, empty or filled summary, location and       *)
(*               description.                                              *)
(*   WeatherSpec GET /api/weather (src/app/api/weather/route.ts and the    *)
(*               earlier handler src/unnamed/part_000): geocoding, the     *)
(*               forecast lookup, the response.                            *)
(*                                                                         *)
(* Instants are integers.  Client time is counted in minutes, the time of  *)
(* a fetchIcs call in seconds.  Local days are numbered; the instant       *)
(* d * DayLength + h is hour h of local day d, and a Date object of byDay  *)
(* is the local day and hour it stands for.  In the time zone of the page  *)
(* one day may lack its hour 0 (clocks set forward at midnight).           *)
(***************************************************************************)
EXTENDS Integers, Sequences, FiniteSets, TLC

\* ---------------------------------------------------------------- bounds
\* The largest number of comma-separated entries of ICS_URLS.
MaxFeeds == 2
\* The largest number of VEVENT instances one feed expands to.
MaxItems == 2

\* The last minute of the client's clock.
MaxTime == 5
\* The largest number of loadEvents runs in flight at once.
MaxInFlight == 2

\* For how many seconds one attempt or wait of the watched fetchIcs call is
\* followed.
MaxSeconds == 16

\* The number of instants of one local day.
DayLength == 2
\* The longest occurrence given to byDay, in instants from start to end.
MaxSpan == 3
\* The largest number of events given to byDay.
MaxShown == 2
\* The largest number of times the events state is replaced, and the last
\* local date the page lives to see.
MaxLoads == 3
LastDay == 4

\* ------------------------------------------------------ program constants
\* route.ts:8   const maxRetries = 3
maxRetries == 3
\* route.ts:16  setTimeout(..., 15000), in seconds
TimeoutSec == 15
\* route.ts:39  attempt * 1000, in seconds
BackoffSec == 1
\* page.tsx:382  for (let i = 0; i < 4; i++)
SeededDays == 4

\* A JSON field that is not present / a JS undefined.
Absent == "<absent>"

\* JS truthiness of a string-or-missing field.
Truthy(v) == v # Absent /\ v # ""

VARIABLES
  \* ---- server: one GET /api/events
  pc,            \* position of the handler: idle, fetching, merged, done
  icsUrls,       \* route.ts:59  the configured feeds (after split/trim/filter)
  feeds,         \* one fetchIcs call per feed: [st, attempt, lastError, value]
  merged,        \* route.ts:72
  successCount,  \* route.ts:81
  failCount,     \* route.ts:82
  exit,          \* the return statement that produced the response (its line)
  response,      \* what NextResponse.json was given, with its status
  \* ---- client: the mounted HomePage
  now,           \* minutes since the mount effect ran
  events,        \* page.tsx:254  useState<Event[]>([])
  error,         \* page.tsx:256  useState<string | null>(null)
  runs,          \* the loadEvents runs in flight, each at one of its awaits
  timers,        \* pending setTimeout(loadEvents, 5 min): their due minutes
  interval,      \* page.tsx:368  eventsTimer is armed (not yet cleared)
  periodic,      \* how many times the interval has called loadEvents
  last,          \* what the loadEvents run that finished last received, and
                 \* its place among the runs then in flight (1 = the oldest)
  \* ---- the watched fetchIcs call (feeds[1]), second by second
  stage,         \* the await it is at: off, race (19), text (25), wait (40), end
  elapsed,       \* seconds since the current attempt or wait began
  abandoned,     \* attempts that timed out with their request still in flight
  console,       \* route.ts:32,36  one line per finished attempt
  waits,         \* route.ts:40  the waitTime of every backoff, in seconds
  late,          \* the abandoned request that settled last: its attempt, what
                 \* it brought, and the attempt and await the call was at
  \* ---- the configuration of the server process
  env,           \* process.env: [ICS_URLS, DAYS_AHEAD]
  DAYS_AHEAD,    \* route.ts:5  the module constant, set when the module loads
                 \* (0 before)
  rangeEnd,      \* route.ts:66  how many days after now the run's range ends
  seen,          \* process.env as it was when the run was triggered
  \* ---- the page's day buckets
  today,         \* the local date (its number) at the time of the render
  skipped,       \* the local day whose hour 0 does not exist; 0 when there is none
  byDay,         \* page.tsx:376  the memoized bucket list; <<>> before the render
  eventsRef,     \* the identity of the array the events state holds: 0 is the
                 \* [] of useState, k the array of the k-th setEvents
  memoDeps,      \* page.tsx:428  the [events] useMemo last computed byDay for
  \* ---- server: one GET /api/weather
  weatherPc,       \* position of the handler: idle, geocoding, geoWait,
                   \* forecast, forecastWait, done
  handler,         \* which GET serves the request: weather/route.ts or part_000
  zipCode,         \* weather/route.ts:57  process.env.ZIP_CODE
  coords,          \* weather/route.ts:53-54,73-74  lat/lon: default or geocoded
  attempts,        \* weather/route.ts:63
  weatherAttempts, \* weather/route.ts:105
  weatherExit,     \* the return statement that produced the response (its line)
  weatherResponse  \* what NextResponse.json was given, with its status

serverVars == <<pc, icsUrls, feeds, merged, successCount, failCount, exit,
                response>>
clientVars == <<now, events, error, runs, timers, interval, periodic, last>>
fetchVars == <<stage, elapsed, abandoned, console, waits, late>>
dayVars == <<today, skipped, byDay, eventsRef, memoDeps>>
configVars == <<env, DAYS_AHEAD, rangeEnd, seen>>
weatherVars == <<weatherPc, handler, zipCode, coords, attempts, weatherAttempts,
                 weatherExit, weatherResponse>>
vars == <<serverVars, clientVars, fetchVars, dayVars, configVars, weatherVars>>

\* What the actions of the server, of the page and of the watched call leave
\* alone.
exceptServer == <<clientVars, fetchVars, dayVars, configVars, weatherVars>>
exceptClient == <<serverVars, fetchVars, dayVars, configVars, weatherVars>>
exceptFetch == <<pc, icsUrls, merged, successCount, failCount, exit, response,
                 clientVars, dayVars, configVars, weatherVars>>
exceptDay == <<serverVars, clientVars, fetchVars, configVars, weatherVars>>
exceptServerAndConfig == <<clientVars, fetchVars, dayVars, weatherVars>>
exceptWeather == <<serverVars, clientVars, fetchVars, dayVars, configVars>>

\* ------------------------------------------------------------------ feeds
\* The instant of an ISO-8601 string, and the string of an instant
\* (Date.prototype.toISOString, new Date(string)).
ToISOString(t) == [iso |-> t]
DateOf(s) == s.iso

\* One VEVENT / recurrence instance as ical-expander hands it over.  valid is
\* FALSE for an instance whose startDate/endDate cannot be converted
\* (toJSDate().toISOString() throws).  summary, location and description are
\* the texts of the properties; a property the VEVENT lacks is Absent or "".
Starts == {1, 2}
Items ==
  [start : Starts, valid : {TRUE}, summary : {"A"},
   location : {Absent}, description : {Absent}]
    \cup {[start |-> 0, valid |-> FALSE, summary |-> "A",
           location |-> Absent, description |-> Absent]}

RECURSIVE SeqsUpTo(_, _)
SeqsUpTo(S, n) ==
  IF n = 0 THEN {<<>>}
  ELSE LET shorter == SeqsUpTo(S, n - 1)
       IN  shorter \cup {Append(s, x) : s \in {t \in shorter : Len(t) = n - 1}, x \in S}

\* What a calendar expands to between now and rangeEnd: the single events
\* followed by the recurring instances, or Unparsable when IcalExpander throws.
Unparsable == [parsable |-> FALSE, items |-> <<>>]

\* The instances of one calendar carry different summaries: the k-th instance
\* the expansion produces is called "E<k>".
Titled(items) == [k \in DOMAIN items |-> [items[k] EXCEPT !.summary = "E" \o ToString(k)]]

Calendars ==
  [parsable : {TRUE}, items : {Titled(s) : s \in SeqsUpTo(Items, MaxItems)}]
    \cup {Unparsable}

\* The body text of an HTTP response: with or without the BEGIN:VCALENDAR marker.
NoText == [marker |-> FALSE, cal |-> Unparsable]
Texts == {NoText} \cup [marker : {TRUE}, cal : Calendars]

\* What one attempt of fetchIcs can meet.
AttemptOutcomes ==
  {[kind |-> "network", text |-> NoText],
   [kind |-> "timeout", text |-> NoText],
   [kind |-> "http",    text |-> NoText],
   [kind |-> "body",    text |-> NoText]}
    \cup {[kind |-> "ok", text |-> t] : t \in Texts}

\* The message of the error one failed attempt throws (route.ts:16,22,29), or
\* of the error fetch or res.text() rejected with (route.ts:14,25).
AttemptError(o) ==
  CASE o.kind = "timeout" -> "Request timeout after 15s"
    [] o.kind = "http"    -> "HTTP error status"
    [] o.kind = "network" -> "fetch failed"
    [] o.kind = "body"    -> "terminated"
    [] OTHER              -> "Response does not contain valid ICS calendar data"

\* AttemptSucceeds without the check of lines 28-30.
AttemptSucceedsUnvalidated(o) == o.kind = "ok"

\* route.ts:21-30  the attempt got a usable payload
AttemptSucceeds(o) == o.kind = "ok" /\ o.text.marker

\* ---------------------------------------------------------------- fetchIcs
\* route.ts:7-9  a fetchIcs call that has just been made
NewFetch ==
  [st |-> "fetching", attempt |-> 1, lastError |-> Absent, value |-> NoText,
   reason |-> Absent]

\* route.ts:46  the message of the one error fetchIcs throws when it gives up
GiveUpMessage(lastError) == "Failed to fetch ICS after 3 attempts: " \o lastError

\* AfterAttempt giving up with the error of the attempt before the last one.
AfterAttemptStaleError(f, o) ==
  IF AttemptSucceeds(o)
    THEN [f EXCEPT !.st = "fulfilled", !.attempt = 0, !.lastError = Absent,
                   !.value = o.text]
    ELSE IF f.attempt < maxRetries
      THEN [f EXCEPT !.st = "waiting", !.lastError = AttemptError(o)]
      ELSE [f EXCEPT !.st = "rejected", !.attempt = 0, !.lastError = Absent,
                     !.reason = GiveUpMessage(f.lastError)]

\* route.ts:11-43  one pass of the retry loop for a call f that meets outcome o:
\* return the text, or record the error and wait before the next attempt, or
\* (after the last attempt) leave the loop and throw.
\* Once the call has settled only its promise is left, with the value it
\* returned or the reason it threw: attempt and lastError are locals of the call.
AfterAttempt(f, o) ==
  IF AttemptSucceeds(o)
    THEN [f EXCEPT !.st = "fulfilled", !.attempt = 0, !.lastError = Absent,
                   !.value = o.text]
    ELSE IF f.attempt < maxRetries
      THEN [f EXCEPT !.st = "waiting", !.lastError = AttemptError(o)]
      ELSE [f EXCEPT !.st = "rejected", !.attempt = 0, !.lastError = Absent,
                     !.reason = GiveUpMessage(AttemptError(o))]

\* route.ts:38-41,11  the backoff timer fired: the loop starts the next attempt
AfterBackoff(f) == [f EXCEPT !.st = "fetching", !.attempt = @ + 1]

Settled(f) == f.st \in {"fulfilled", "rejected"}

\* -------------------------------------------------------------------- GET
\* process.env.ICS_URLS: unset, or the comma-separated entries, each already
\* trimmed ("" is an entry of white space only, "u" a feed address).
Unset == [set |-> FALSE, entries |-> <<>>]
RawValues ==
  {Unset} \cup [set : {TRUE}, entries : SeqsUpTo({"", "u"}, MaxFeeds) \ {<<>>}]

\* route.ts:53-54  !raw, for raw = process.env.ICS_URLS?.trim()
RawIsEmpty(raw) == ~raw.set \/ raw.entries = <<"">>

NonBlank(s) == s # ""
\* SplitUrls without filter(Boolean).
SplitUrlsUnfiltered(raw) == raw.entries

\* route.ts:59  raw.split(",").map(s => s.trim()).filter(Boolean)
SplitUrls(raw) == SelectSeq(raw.entries, NonBlank)

\* route.ts:100-107,117-124  the object pushed for one instance of feed idx
\* MakeOccurrence that copies the three texts as they are.
MakeOccurrenceVerbatim(item, idx) ==
  [start |-> ToISOString(item.start),
   title |-> item.summary,
   location |-> item.location,
   description |-> item.description,
   sourceIndex |-> idx]

\* route.ts:100-107,117-124  the object pushed for one instance of feed idx.
\* A field that is undefined is left out of the JSON body: Absent.
MakeOccurrence(item, idx) ==
  [start |-> ToISOString(item.start),
   title |-> IF Truthy(item.summary) THEN item.summary ELSE "(No title)",
   location |-> IF Truthy(item.location) THEN item.location ELSE Absent,
   description |-> IF Truthy(item.description) THEN item.description ELSE Absent,
   sourceIndex |-> idx]

\* PushAll without the inner try of lines 99-111, 116-128: the first instance
\* that cannot be built ends the feed's loop.
RECURSIVE PushAllUntilInvalid(_, _, _)
PushAllUntilInvalid(acc, cal, idx) ==
  IF cal = <<>> THEN acc
  ELSE IF Head(cal).valid
    THEN PushAllUntilInvalid(Append(acc, MakeOccurrence(Head(cal), idx)), Tail(cal), idx)
    ELSE acc

\* route.ts:98-129  both for-loops over one expanded calendar: an instance
\* whose construction throws is skipped, the others are pushed in order.
RECURSIVE PushAll(_, _, _)
PushAll(acc, cal, idx) ==
  IF cal = <<>> THEN acc
  ELSE PushAll(IF Head(cal).valid THEN Append(acc, MakeOccurrence(Head(cal), idx))
                                  ELSE acc,
               Tail(cal), idx)

\* ProcessResult with sourceIndex taken from the running count of successful
\* feeds instead of the feed's position.
ProcessResultBySuccessCount(acc, result, idx) ==
  IF result.st = "rejected"
    THEN [acc EXCEPT !.failCount = @ + 1]
    ELSE IF ~result.value.cal.parsable
      THEN [acc EXCEPT !.failCount = @ + 1]
      ELSE [acc EXCEPT !.merged = PushAll(@, result.value.cal.items, acc.successCount),
                       !.successCount = @ + 1]

\* ProcessResult whose catch of lines 132-136 does not count the feed.
ProcessResultParseUncounted(acc, result, idx) ==
  IF result.st = "rejected"
    THEN [acc EXCEPT !.failCount = @ + 1]
    ELSE IF ~result.value.cal.parsable
      THEN acc
      ELSE [acc EXCEPT !.merged = PushAll(@, result.value.cal.items, idx),
                       !.successCount = @ + 1]

\* ProcessResult that takes a calendar that cannot be parsed for an empty one.
ProcessResultParseCountsOk(acc, result, idx) ==
  IF result.st = "rejected"
    THEN [acc EXCEPT !.failCount = @ + 1]
    ELSE IF ~result.value.cal.parsable
      THEN [acc EXCEPT !.successCount = @ + 1]
      ELSE [acc EXCEPT !.merged = PushAll(@, result.value.cal.items, idx),
                       !.successCount = @ + 1]

\* route.ts:84-137  the forEach callback for the settled result of feed idx
\* (idx counts from 0), on acc = [merged, successCount, failCount].
ProcessResult(acc, result, idx) ==
  IF result.st = "rejected"
    THEN [acc EXCEPT !.failCount = @ + 1]
    ELSE IF ~result.value.cal.parsable
      THEN [acc EXCEPT !.failCount = @ + 1]
      ELSE [acc EXCEPT !.merged = PushAll(@, result.value.cal.items, idx),
                       !.successCount = @ + 1]

\* ForEachResult walking the results from the last feed to the first.
RECURSIVE ForEachResultBackwards(_, _, _)
ForEachResultBackwards(acc, results, k) ==
  IF k > Len(results) THEN acc
  ELSE ProcessResult(ForEachResultBackwards(acc, results, k + 1), results[k], k - 1)

RECURSIVE ForEachResult(_, _, _)
ForEachResult(acc, results, k) ==
  IF k > Len(results) THEN acc
  ELSE ForEachResult(ProcessResult(acc, results[k], k - 1), results, k + 1)

\* InsertByStart that puts x in front of the elements with the same start.
RECURSIVE InsertBeforeEqual(_, _)
InsertBeforeEqual(sorted, x) ==
  IF sorted = <<>> THEN <<x>>
  ELSE IF DateOf(Head(sorted).start) - DateOf(x.start) < 0
    THEN <<Head(sorted)>> \o InsertBeforeEqual(Tail(sorted), x)
    ELSE <<x>> \o sorted

\* route.ts:140  Array.prototype.sort is stable: x goes behind every element
\* whose start is not later than its own.
RECURSIVE InsertByStart(_, _)
InsertByStart(sorted, x) ==
  IF sorted = <<>> THEN <<x>>
  ELSE IF DateOf(Head(sorted).start) - DateOf(x.start) <= 0
    THEN <<Head(sorted)>> \o InsertByStart(Tail(sorted), x)
    ELSE <<x>> \o sorted

\* GET without line 140: the merged list is left as it was pushed.
SortByStartOmitted(s) == s

RECURSIVE SortByStart(_)
SortByStart(s) ==
  IF s = <<>> THEN <<>>
  ELSE InsertByStart(SortByStart(SubSeq(s, 1, Len(s) - 1)), s[Len(s)])

\* NextResponse.json(body, {status}): status defaults to 200.
Json(evs, err, warn) == [status |-> 200, events |-> evs, error |-> err, warning |-> warn]

\* No response has been produced yet.
NoResponse == [status |-> 0, events |-> <<>>, error |-> Absent, warning |-> Absent]

\* route.ts:56, 62
NotSetResponse == Json(<<>>, "ICS_URLS not set", Absent)
NoUrlsResponse == Json(<<>>, "No valid ICS URLs", Absent)

\* MergeResponse without the total-failure branch.
MergeResponseSilent(m, sc, fc) ==
  Json(m, Absent, IF fc > 0 THEN ToString(fc) \o " calendar(s) failed to load" ELSE Absent)

\* MergeResponse with the warning only from the second failed feed on.
MergeResponseLateWarning(m, sc, fc) ==
  IF sc = 0 /\ fc > 0
    THEN Json(<<>>, "All " \o ToString(fc) \o " calendar(s) failed to load", Absent)
    ELSE Json(m, Absent,
              IF fc > 1 THEN ToString(fc) \o " calendar(s) failed to load" ELSE Absent)

\* route.ts:145-155  the response after the merge
MergeResponse(m, sc, fc) ==
  IF sc = 0 /\ fc > 0
    THEN Json(<<>>, "All " \o ToString(fc) \o " calendar(s) failed to load", Absent)
    ELSE Json(m, Absent,
              IF fc > 0 THEN ToString(fc) \o " calendar(s) failed to load" ELSE Absent)

\* The line of the return statement MergeResponse stands for.
MergeExit(sc, fc) == IF sc = 0 /\ fc > 0 THEN "L146" ELSE "L152"

\* CatchResponse that hands out what was merged before the exception.
CatchResponseKeepsMerged(message) == Json(merged, message, Absent)

\* CatchResponse that lets the exception escape (the framework answers 500).
CatchResponseRethrows(message) ==
  [status |-> 500, events |-> <<>>, error |-> message, warning |-> Absent]

\* route.ts:156-160  the catch block of GET
CatchResponse(message) == Json(<<>>, message, Absent)

\* e.message of an exception that reaches the catch block, or "Unknown error".
ThrownMessages == {"Unknown error", "unexpected"}

\* route.ts:51-69  a request arrives while process.env.ICS_URLS is raw: read
\* the configuration, answer at once when there is no feed, otherwise call
\* fetchIcs for every feed.
StartWith(raw) ==
  /\ pc \in {"idle", "done"}
  /\ merged' = <<>>
  /\ successCount' = 0
  /\ failCount' = 0
  /\ IF RawIsEmpty(raw)
       THEN /\ pc' = "done"
            /\ icsUrls' = <<>>
            /\ feeds' = <<>>
            /\ exit' = "L56"
            /\ response' = NotSetResponse
       ELSE IF Len(SplitUrls(raw)) = 0
         THEN /\ pc' = "done"
              /\ icsUrls' = <<>>
              /\ feeds' = <<>>
              /\ exit' = "L62"
              /\ response' = NoUrlsResponse
         ELSE /\ pc' = "fetching"
              /\ icsUrls' = SplitUrls(raw)
              /\ feeds' = [i \in 1..Len(SplitUrls(raw)) |-> NewFetch]
              /\ exit' = "none"
              /\ response' = NoResponse

\* A request arrives, whatever process.env.ICS_URLS holds.
Start ==
  /\ \E raw \in RawValues : StartWith(raw)
  /\ UNCHANGED exceptServer

\* route.ts:12-37  one attempt of the fetchIcs call of feed i ends
Attempt(i) ==
  /\ pc = "fetching"
  /\ feeds[i].st = "fetching"
  /\ \E o \in AttemptOutcomes : feeds' = [feeds EXCEPT ![i] = AfterAttempt(@, o)]
  /\ UNCHANGED <<pc, icsUrls, merged, successCount, failCount, exit, response>>
  /\ UNCHANGED exceptServer

\* route.ts:38-41  the backoff wait of feed i ends
Backoff(i) ==
  /\ pc = "fetching"
  /\ feeds[i].st = "waiting"
  /\ feeds' = [feeds EXCEPT ![i] = AfterBackoff(@)]
  /\ UNCHANGED <<pc, icsUrls, merged, successCount, failCount, exit, response>>
  /\ UNCHANGED exceptServer

\* Promise.race in place of Promise.allSettled: the first settled call is enough.
AnySettled == \E i \in DOMAIN feeds : Settled(feeds[i])

\* route.ts:69  await Promise.allSettled(...) can resume
AllSettled == \A i \in DOMAIN feeds : Settled(feeds[i])

\* route.ts:69-142  Promise.allSettled resolves; the results are parsed,
\* expanded, merged and sorted (one synchronous stretch).
FanIn ==
  /\ pc = "fetching"
  /\ AllSettled
  /\ LET acc == ForEachResult([merged |-> <<>>, successCount |-> 0, failCount |-> 0],
                              feeds, 1)
     IN  /\ merged' = SortByStart(acc.merged)
         /\ successCount' = acc.successCount
         /\ failCount' = acc.failCount
  /\ pc' = "merged"
  /\ UNCHANGED <<icsUrls, feeds, exit, response>>
  /\ UNCHANGED exceptServer

\* route.ts:144-155
Respond ==
  /\ pc = "merged"
  /\ response' = MergeResponse(merged, successCount, failCount)
  /\ exit' = MergeExit(successCount, failCount)
  /\ pc' = "done"
  /\ UNCHANGED <<icsUrls, feeds, merged, successCount, failCount>>
  /\ UNCHANGED exceptServer

\* route.ts:156-160  an exception raised in the try block after the fan-in
\* (before or after the merge) reaches the catch block.
Throw ==
  /\ \/ pc = "fetching" /\ AllSettled
     \/ pc = "merged"
  /\ \E m \in ThrownMessages : response' = CatchResponse(m)
  /\ exit' = "L159"
  /\ pc' = "done"
  /\ UNCHANGED <<icsUrls, feeds, merged, successCount, failCount>>
  /\ UNCHANGED exceptServer

ServerInit ==
  /\ pc = "idle"
  /\ icsUrls = <<>>
  /\ feeds = <<>>
  /\ merged = <<>>
  /\ successCount = 0
  /\ failCount = 0
  /\ exit = "none"
  /\ response = NoResponse

\* ------------------------------------------------------------- loadEvents
\* page.tsx:368  setInterval(loadEvents, 60_000), in minutes
EventsPeriodMin == 1
\* page.tsx:267  setTimeout(loadEvents, 5 * 60_000), in minutes
CooldownMin == 5

\* JS null (the error state never holds anything else than null or a string).
Null == "<null>"

\* How `await fetch("/api/events")` can end: it rejects (transport failure), or
\* it resolves to a response with a status and a content-type header.
HttpOutcomes ==
  {[kind |-> "reject", ok |-> FALSE, ctype |-> Absent]}
    \cup [kind : {"response"}, ok : BOOLEAN,
          ctype : {Absent, "text/html", "application/json"}]

\* page.tsx:273  contentType.includes("application/json")
IncludesJson(ctype) == ctype \in {"application/json", "application/json; charset=utf-8"}

\* A response body as r.json() meets it: text that is no JSON ("invalid"), the
\* JSON value null, or an object whose events field may be missing.
Body(shape, hasEvents, evs, err, warn) ==
  [shape |-> shape, hasEvents |-> hasEvents, events |-> evs, error |-> err,
   warning |-> warn]

\* The body the events API sends for a response of GET.
BodyOf(resp) == Body("object", TRUE, resp.events, resp.error, resp.warning)

\* The settled results of one GET over at most two feeds, each rejected or
\* fulfilled with an unparsable, an empty or a one-instance calendar.
SampleResults ==
  LET one == [start |-> 1, valid |-> TRUE, summary |-> "A",
              location |-> Absent, description |-> Absent]
      rs  == {[NewFetch EXCEPT !.st = "rejected", !.attempt = 0]}
               \cup {[NewFetch EXCEPT !.st = "fulfilled", !.attempt = 0,
                                      !.value = [marker |-> TRUE, cal |-> c]] :
                       c \in {Unparsable,
                              [parsable |-> TRUE, items |-> <<>>],
                              [parsable |-> TRUE, items |-> <<one>>]}}
  IN  SeqsUpTo(rs, 2) \ {<<>>}

\* route.ts:84-155  the response of GET for the settled results rs
ResponseFor(rs) ==
  LET acc == ForEachResult([merged |-> <<>>, successCount |-> 0, failCount |-> 0], rs, 1)
  IN  MergeResponse(SortByStart(acc.merged), acc.successCount, acc.failCount)

\* Every response GET gives over the sample results.
ServerResponses ==
  {NotSetResponse, NoUrlsResponse}
    \cup {CatchResponse(m) : m \in ThrownMessages}
    \cup {ResponseFor(rs) : rs \in SampleResults}

\* Bodies the events API does not send: no JSON, null, an object without
\* events, and an object with both an error and events.
ForeignBodies ==
  {Body("invalid", FALSE, <<>>, Absent, Absent),
   Body("null", FALSE, <<>>, Absent, Absent),
   Body("object", FALSE, <<>>, Absent, Absent),
   Body("object", TRUE, ResponseFor(<<[NewFetch EXCEPT !.st = "fulfilled", !.attempt = 0,
          !.value = [marker |-> TRUE,
                     cal |-> [parsable |-> TRUE,
                              items |-> <<[start |-> 2, valid |-> TRUE,
                                           summary |-> "A",
                                           location |-> Absent,
                                           description |-> Absent]>>]]]>>).events,
        "upstream", Absent)}

Bodies == {BodyOf(r) : r \in ServerResponses} \cup ForeignBodies

\* page.tsx:262-277  where a run goes once `await fetch` has ended with o:
\* to the catch block, to one of the two early returns, or on to r.json().
FetchBranch(o) ==
  IF o.kind = "reject" THEN "L292"
  ELSE IF ~o.ok THEN "L266"
  ELSE IF o.ctype = Absent \/ ~IncludesJson(o.ctype) THEN "L274"
  ELSE "json"

\* JsonBranch that takes a warning for an error.
JsonBranchWarningIsError(b) ==
  IF b.shape # "object" THEN "L292"
  ELSE IF ~Truthy(b.error) /\ ~Truthy(b.warning) /\ b.hasEvents THEN "L283"
  ELSE "L287"

\* page.tsx:279-294  where a run goes once `await r.json()` has ended with b:
\* to the catch block (json() rejects, or j.error of null throws), to the
\* update, or to the else branch.
JsonBranch(b) ==
  IF b.shape # "object" THEN "L292"
  ELSE IF ~Truthy(b.error) /\ b.hasEvents THEN "L283"
  ELSE "L287"

\* EventsAfter that shows the events of whatever object came back.
EventsAfterAnyObject(branch, b, evs) ==
  IF branch \in {"L283", "L287"} /\ b.hasEvents THEN b.events ELSE evs

\* EventsAfter that keeps what is shown when the new list is empty.
EventsAfterUnlessEmpty(branch, b, evs) ==
  IF branch = "L283" /\ b.events # <<>> THEN b.events ELSE evs

\* page.tsx:283  setEvents(j.events) on the update branch only
EventsAfter(branch, b, evs) == IF branch = "L283" THEN b.events ELSE evs

\* page.tsx:284  setError(null) on the update branch only
ErrorAfter(branch, err) == IF branch = "L283" THEN Null ELSE err

\* TimersAfter whose non-OK branch lacks its return: the run goes on, fails
\* again further down and schedules a second follow-up.
TimersAfterNoReturn(branch, ts, t) ==
  IF branch = "L266" THEN Append(Append(ts, t + CooldownMin), t + CooldownMin)
  ELSE IF branch \in {"L274", "L287", "L292"} THEN Append(ts, t + CooldownMin)
  ELSE ts

\* TimersAfter that schedules a follow-up only when none is pending.
TimersAfterCoalesced(branch, ts, t) ==
  IF branch \in {"L266", "L274", "L287", "L292"} /\ ts = <<>>
    THEN Append(ts, t + CooldownMin)
    ELSE ts

\* page.tsx:267,275,288,293  setTimeout(loadEvents, 5 * 60_000) on the other four
TimersAfter(branch, ts, t) ==
  IF branch \in {"L266", "L274", "L287", "L292"} THEN Append(ts, t + CooldownMin) ELSE ts

\* page.tsx:254-256  a state setter of the component: React drops the update
\* once the component has unmounted (the cleanup of its effect has run).
SetState(old, new) == IF interval THEN new ELSE old

Remove(seq, i) == SubSeq(seq, 1, i - 1) \o SubSeq(seq, i + 1, Len(seq))

NoBody == Body("none", FALSE, <<>>, Absent, Absent)
NoLast ==
  [http |-> [kind |-> "none", ok |-> FALSE, ctype |-> Absent], body |-> NoBody,
   place |-> 0]

\* IntervalDue that skips the periodic refresh while a cooldown is pending.
IntervalDueUnlessCooldown(armed, calls, t) ==
  armed /\ calls * EventsPeriodMin < t /\ timers = <<>>

\* page.tsx:368  the interval callback is due
IntervalDue(armed, calls, t) == armed /\ calls * EventsPeriodMin < t

TimerDue(t) == \E k \in DOMAIN timers : timers[k] <= t

\* The runs that start when the clock reaches minute t.
StartingAt(t) ==
  (IF interval THEN 1 ELSE 0) + Cardinality({k \in DOMAIN timers : timers[k] = t})

\* page.tsx:260-262  loadEvents is called and suspends at `await fetch`
StartRun(rs) == Append(rs, "fetch")

\* A minute passes.  Every callback that is due runs first; the bounds keep
\* the clock within MaxTime and the runs in flight within MaxInFlight.
Tick ==
  /\ now < MaxTime
  /\ ~IntervalDue(interval, periodic, now)
  /\ ~TimerDue(now)
  /\ Len(runs) + StartingAt(now + 1) <= MaxInFlight
  /\ now' = now + 1
  /\ UNCHANGED <<events, error, runs, timers, interval, periodic, last>>
  /\ UNCHANGED exceptClient

\* page.tsx:368  the interval fires
IntervalFire ==
  /\ IntervalDue(interval, periodic, now)
  /\ runs' = StartRun(runs)
  /\ periodic' = periodic + 1
  /\ UNCHANGED <<now, events, error, timers, interval, last>>
  /\ UNCHANGED exceptClient

\* page.tsx:267,275,288,293  a cooldown timer fires
TimerFire(k) ==
  /\ timers[k] <= now
  /\ timers' = Remove(timers, k)
  /\ runs' = StartRun(runs)
  /\ UNCHANGED <<now, events, error, interval, periodic, last>>
  /\ UNCHANGED exceptClient

\* page.tsx:262-277,290-294  `await fetch` of run i ends
FetchSettles(i) ==
  /\ runs[i] = "fetch"
  /\ \E o \in HttpOutcomes :
       LET branch == FetchBranch(o)
       IN  IF branch = "json"
             THEN /\ runs' = [runs EXCEPT ![i] = "json"]
                  /\ UNCHANGED <<timers, last>>
             ELSE /\ runs' = Remove(runs, i)
                  /\ timers' = TimersAfter(branch, timers, now)
                  /\ last' = [http |-> o, body |-> NoBody, place |-> i]
  /\ UNCHANGED <<now, events, error, interval, periodic>>
  /\ UNCHANGED exceptClient

\* page.tsx:279-294  `await r.json()` of run i ends
JsonSettles(i) ==
  /\ runs[i] = "json"
  /\ \E b \in Bodies :
       LET branch == JsonBranch(b)
       IN  /\ events' = SetState(events, EventsAfter(branch, b, events))
           /\ error' = SetState(error, ErrorAfter(branch, error))
           /\ timers' = TimersAfter(branch, timers, now)
           /\ last' = [http |-> [kind |-> "response", ok |-> TRUE,
                                 ctype |-> "application/json"],
                       body |-> b, place |-> i]
  /\ runs' = Remove(runs, i)
  /\ UNCHANGED <<now, interval, periodic>>
  /\ UNCHANGED exceptClient

\* page.tsx:370-373  the effect's cleanup: only the intervals are cleared
Unmount ==
  /\ interval
  /\ interval' = FALSE
  /\ UNCHANGED <<now, events, error, runs, timers, periodic, last>>
  /\ UNCHANGED exceptClient

\* page.tsx:254-256,365-368  the page has mounted and its effect has run:
\* loadEvents was called once and the interval is armed.
ClientInit ==
  /\ now = 0
  /\ events = <<>>
  /\ error = Null
  /\ runs = StartRun(<<>>)
  /\ timers = <<>>
  /\ interval = TRUE
  /\ periodic = 0
  /\ last = NoLast

\* No fetchIcs call is watched.
\* No abandoned request has settled.
NoLate == [attempt |-> 0, outcome |-> "none", during |-> 0, stage |-> "off"]
FetchOff ==
  /\ stage = "off"
  /\ elapsed = 0
  /\ abandoned = {}
  /\ console = <<>>
  /\ waits = <<>>
  /\ late = NoLate

\* The day buckets are not looked at.
\* useMemo has not run: there are no dependencies to compare with.
NoDeps == -1
DayOff ==
  /\ today = 0
  /\ skipped = 0
  /\ byDay = <<>>
  /\ eventsRef = 0
  /\ memoDeps = NoDeps

\* process.env is not looked at.
NoEnv == [ICS_URLS |-> Unset, DAYS_AHEAD |-> Absent]
ConfigOff ==
  /\ env = NoEnv
  /\ DAYS_AHEAD = 0
  /\ rangeEnd = 0
  /\ seen = NoEnv

\* JS values of the forecast: undefined, null, NaN and numbers.  A number of
\* the forecast API is counted in tenths of a degree, a rounded one in degrees.
JsUndefined == [kind |-> "undefined", n |-> 0]
JsNull == [kind |-> "null", n |-> 0]
JsNaN == [kind |-> "NaN", n |-> 0]
JsNumber(n) == [kind |-> "number", n |-> n]

\* No request for the weather has arrived.
NoWeatherResponse ==
  [status |-> 0, error |-> Absent,
   current |-> [temp |-> JsUndefined, condition |-> Absent, icon |-> Absent],
   today |-> [high |-> JsUndefined, low |-> JsUndefined]]
WeatherOff ==
  /\ weatherPc = "idle"
  /\ handler = "route.ts"
  /\ zipCode = Absent
  /\ coords = "default"
  /\ attempts = 0
  /\ weatherAttempts = 0
  /\ weatherExit = "none"
  /\ weatherResponse = NoWeatherResponse

Init == ServerInit /\ ClientInit /\ FetchOff /\ DayOff /\ ConfigOff /\ WeatherOff

Next ==
  \/ Start
  \/ \E i \in DOMAIN feeds : Attempt(i)
  \/ \E i \in DOMAIN feeds : Backoff(i)
  \/ FanIn
  \/ Respond
  \/ Throw

Spec == Init /\ [][Next]_vars

ClientNext ==
  \/ Tick
  \/ IntervalFire
  \/ \E k \in DOMAIN timers : TimerFire(k)
  \/ \E i \in DOMAIN runs : FetchSettles(i)
  \/ \E i \in DOMAIN runs : JsonSettles(i)
  \/ Unmount

ClientSpec == Init /\ [][ClientNext]_vars

\* ------------------------------------------------- fetchIcs, second by second
\* WaitTime without the factor attempt: one second after every failure.
WaitTimeFlat(attempt) == BackoffSec

\* route.ts:39  const waitTime = attempt * 1000, in seconds
WaitTime(attempt) == attempt * BackoffSec

\* route.ts:32,36  the console line of an attempt that met outcome o
ConsoleLine(attempt, o) ==
  [attempt |-> attempt,
   message |-> IF AttemptSucceeds(o) THEN "ok" ELSE AttemptError(o)]

\* route.ts:21-42  the current attempt of the watched call ends with outcome o:
\* the console line is written, and the call returns, starts its backoff wait
\* or throws.
EndAttempt(o) ==
  /\ feeds' = [feeds EXCEPT ![1] = AfterAttempt(@, o)]
  /\ console' = Append(console, ConsoleLine(feeds[1].attempt, o))
  /\ IF AfterAttempt(feeds[1], o).st = "waiting"
       THEN /\ stage' = "wait"
            /\ waits' = Append(waits, WaitTime(feeds[1].attempt))
       ELSE /\ stage' = "end"
            /\ waits' = waits
  /\ elapsed' = 0

\* One second passes.  The attempt's timer (route.ts:15-17) does not let the
\* race stay pending beyond TimeoutSec, the backoff timer (route.ts:40) does
\* not let the wait last beyond waitTime; nothing bounds the read of the body.
Second ==
  /\ stage \in {"race", "text", "wait"}
  /\ elapsed < MaxSeconds
  /\ stage = "race" => elapsed < TimeoutSec
  /\ stage = "wait" => elapsed < WaitTime(feeds[1].attempt)
  /\ elapsed' = elapsed + 1
  /\ UNCHANGED <<feeds, stage, abandoned, console, waits, late>>
  /\ UNCHANGED exceptFetch

\* route.ts:14,19  fetch rejects (DNS, connection refused, reset, ...)
FetchRejects ==
  /\ stage = "race"
  /\ EndAttempt([kind |-> "network", text |-> NoText])
  /\ UNCHANGED <<abandoned, late>>
  /\ UNCHANGED exceptFetch

\* route.ts:15-19  the attempt's timer fires while fetch is pending: the race
\* rejects, the request itself is not cancelled.
TimerFires ==
  /\ stage = "race"
  /\ elapsed = TimeoutSec
  /\ EndAttempt([kind |-> "timeout", text |-> NoText])
  /\ abandoned' = abandoned \cup {feeds[1].attempt}
  /\ UNCHANGED late
  /\ UNCHANGED exceptFetch

\* route.ts:19-23  fetch resolves with status and headers: a status outside
\* 200..299 ends the attempt, any other lets the call go on to read the body.
HeadersArrive(ok) ==
  /\ stage = "race"
  /\ IF ok
       THEN /\ stage' = "text"
            /\ UNCHANGED <<feeds, elapsed, console, waits>>
       ELSE EndAttempt([kind |-> "http", text |-> NoText])
  /\ UNCHANGED <<abandoned, late>>
  /\ UNCHANGED exceptFetch

\* route.ts:25-33  res.text() resolves with the whole body
BodyArrives(t) ==
  /\ stage = "text"
  /\ EndAttempt([kind |-> "ok", text |-> t])
  /\ UNCHANGED <<abandoned, late>>
  /\ UNCHANGED exceptFetch

\* route.ts:25  res.text() rejects (the connection breaks while the body is read)
BodyFails ==
  /\ stage = "text"
  /\ EndAttempt([kind |-> "body", text |-> NoText])
  /\ UNCHANGED <<abandoned, late>>
  /\ UNCHANGED exceptFetch

\* route.ts:40,11  the backoff timer fires and the loop starts the next attempt
WaitEnds ==
  /\ stage = "wait"
  /\ elapsed = WaitTime(feeds[1].attempt)
  /\ feeds' = [feeds EXCEPT ![1] = AfterBackoff(@)]
  /\ stage' = "race"
  /\ elapsed' = 0
  /\ UNCHANGED <<abandoned, console, waits, late>>
  /\ UNCHANGED exceptFetch

\* What the request of a timed-out attempt can still bring: fetch rejects, or
\* resolves with a status outside 200..299, or with one inside.
LateOutcomes == {"reject", "http", "ok"}

\* LateSettle with one fetchPromise shared by the attempts: what arrives late
\* settles the race of the attempt that is under way.
LateSettleJoinsRace(k, r) ==
  /\ k \in abandoned
  /\ abandoned' = abandoned \ {k}
  /\ late' = [attempt |-> k, outcome |-> r, during |-> feeds[1].attempt,
              stage |-> stage]
  /\ IF stage = "race"
       THEN IF r = "ok"
              THEN /\ stage' = "text"
                   /\ UNCHANGED <<feeds, elapsed, console, waits>>
              ELSE EndAttempt([kind |-> IF r = "http" THEN "http" ELSE "network",
                               text |-> NoText])
       ELSE UNCHANGED <<feeds, stage, elapsed, console, waits>>
  /\ UNCHANGED exceptFetch

\* route.ts:14,19  the request of a timed-out attempt k settles after all with
\* r: the race it belonged to has been settled by the timer, and the
\* fetchPromise of attempt k is in no other race.
LateSettle(k, r) ==
  /\ k \in abandoned
  /\ abandoned' = abandoned \ {k}
  /\ late' = [attempt |-> k, outcome |-> r, during |-> feeds[1].attempt,
              stage |-> stage]
  /\ UNCHANGED <<feeds, stage, elapsed, console, waits>>
  /\ UNCHANGED exceptFetch

\* GET has called fetchIcs for its only feed (route.ts:69), and that call is
\* watched.
FetchInit ==
  /\ pc = "fetching"
  /\ icsUrls = <<"u">>
  /\ feeds = <<NewFetch>>
  /\ merged = <<>>
  /\ successCount = 0
  /\ failCount = 0
  /\ exit = "none"
  /\ response = NoResponse
  /\ ClientInit
  /\ stage = "race"
  /\ elapsed = 0
  /\ abandoned = {}
  /\ console = <<>>
  /\ waits = <<>>
  /\ late = NoLate
  /\ DayOff
  /\ ConfigOff
  /\ WeatherOff

FetchNext ==
  \/ Second
  \/ FetchRejects
  \/ TimerFires
  \/ \E ok \in BOOLEAN : HeadersArrive(ok)
  \/ \E t \in Texts : BodyArrives(t)
  \/ BodyFails
  \/ WaitEnds
  \/ \E k \in abandoned, r \in LateOutcomes : LateSettle(k, r)

FetchSpec == FetchInit /\ [][FetchNext]_vars

\* ---------------------------------------------------------- configuration
\* route.ts:5  the default of DAYS_AHEAD
DefaultDaysAhead == 30

\* The values process.env.DAYS_AHEAD takes: unset, or a number of days.
DaysValues == {Absent, "7"}

\* route.ts:5  parseInt(process.env.DAYS_AHEAD || "30", 10)
ParseDays(v) == IF v = "7" THEN 7 ELSE DefaultDaysAhead

\* The values process.env.ICS_URLS takes: unset, or up to two comma-separated
\* entries of which at most one names a feed ("u" or "v").
ConfigRaws ==
  {Unset} \cup {r \in [set : {TRUE}, entries : SeqsUpTo({"", "u", "v"}, 2) \ {<<>>}] :
                  Cardinality({k \in DOMAIN r.entries : r.entries[k] # ""}) <= 1}

\* Between two runs process.env.ICS_URLS is set to raw.
SetUrls(raw) ==
  /\ pc \in {"idle", "done"}
  /\ raw # env.ICS_URLS
  /\ env' = [env EXCEPT !.ICS_URLS = raw]
  /\ UNCHANGED <<DAYS_AHEAD, rangeEnd, seen>>
  /\ UNCHANGED <<serverVars, exceptServerAndConfig>>

\* Between two runs process.env.DAYS_AHEAD is set to v.
SetDays(v) ==
  /\ pc \in {"idle", "done"}
  /\ v # env.DAYS_AHEAD
  /\ env' = [env EXCEPT !.DAYS_AHEAD = v]
  /\ UNCHANGED <<DAYS_AHEAD, rangeEnd, seen>>
  /\ UNCHANGED <<serverVars, exceptServerAndConfig>>

\* route.ts:5  the module constant once the route module is loaded, which is
\* at the first request at the latest (0: not loaded yet)
Loaded(constant, current) == IF constant = 0 THEN ParseDays(current) ELSE constant

\* route.ts:51-69  a request arrives: ICS_URLS is read from process.env; when
\* it names a feed, the range ends DAYS_AHEAD days after now.
Trigger ==
  /\ StartWith(env.ICS_URLS)
  /\ DAYS_AHEAD' = Loaded(DAYS_AHEAD, env.DAYS_AHEAD)
  /\ rangeEnd' = IF pc' = "fetching" THEN DAYS_AHEAD' ELSE 0
  /\ seen' = env
  /\ UNCHANGED env
  /\ UNCHANGED exceptServerAndConfig

\* The server process has started with some environment.
ConfigInit ==
  /\ ServerInit
  /\ ClientInit
  /\ FetchOff
  /\ DayOff
  /\ WeatherOff
  /\ env \in [ICS_URLS : ConfigRaws, DAYS_AHEAD : DaysValues]
  /\ DAYS_AHEAD = 0
  /\ rangeEnd = 0
  /\ seen = NoEnv

ConfigNext ==
  \/ \E raw \in ConfigRaws : SetUrls(raw)
  \/ \E v \in DaysValues : SetDays(v)
  \/ Trigger
  \/ \E i \in DOMAIN feeds : Attempt(i)
  \/ \E i \in DOMAIN feeds : Backoff(i)
  \/ FanIn
  \/ Respond
  \/ Throw

ConfigSpec == ConfigInit /\ [][ConfigNext]_vars

\* ------------------------------------------------------------------ byDay
\* new Date(isoString): the local day and hour of an instant
LocalTime(t) == [day |-> t \div DayLength, hour |-> t % DayLength]

\* A local time that does not exist stands for the one an hour later.
Existing(lt) ==
  IF lt.day = skipped /\ lt.hour = 0 THEN [lt EXCEPT !.hour = 1] ELSE lt

\* page.tsx:381,396-397  new Date(y, m, d), setHours(0, 0, 0, 0): the start
\* of the local day of lt
StartOfDay(lt) == Existing([day |-> lt.day, hour |-> 0])

\* page.tsx:384,407  date.setDate(n): the same local hour on day n
SetDate(lt, n) == Existing([day |-> n, hour |-> lt.hour])

\* The number a Date converts to in a comparison (getTime, valueOf).
GetTime(lt) == lt.day * DayLength + lt.hour

\* Date.prototype.toDateString, and the day that new Date(key) gives back
\* (page.tsx:385,404,412,426).
ToDateString(lt) == [dateString |-> lt.day]
DayOfKey(key) == key.dateString

\* The Map of page.tsx:377, as its entries in insertion order.
MapHas(map, key) == \E b \in DOMAIN map : map[b].key = key

\* page.tsx:386,405,413  if (!map.has(key)) map.set(key, [])
MapEnsure(map, key) ==
  IF MapHas(map, key) THEN map ELSE Append(map, [key |-> key, arr |-> <<>>])

\* page.tsx:405-406,413-414  ... map.get(key)!.push(ev)
MapPush(map, key, ev) ==
  [b \in DOMAIN MapEnsure(map, key) |->
     IF MapEnsure(map, key)[b].key = key
       THEN [MapEnsure(map, key)[b] EXCEPT !.arr = Append(@, ev)]
       ELSE MapEnsure(map, key)[b]]

\* Seed that starts at tomorrow.
RECURSIVE SeedFromTomorrow(_, _, _)
SeedFromTomorrow(map, start, i) ==
  IF i >= SeededDays - 1 THEN map
  ELSE SeedFromTomorrow(MapEnsure(map, ToDateString(SetDate(start, start.day + 1 + i))),
                        start, i + 1)

\* page.tsx:382-387  the loop that makes the next 4 days present, start being
\* the start of today
RECURSIVE Seed(_, _, _)
Seed(map, start, i) ==
  IF i >= SeededDays THEN map
  ELSE Seed(MapEnsure(map, ToDateString(SetDate(start, start.day + i))), start, i + 1)

\* page.tsx:402-410  while (currentDay <= endDay) { ... }
RECURSIVE AddToEachDay(_, _, _, _)
AddToEachDay(map, ev, currentDay, endDay) ==
  IF GetTime(currentDay) <= GetTime(endDay)
    THEN AddToEachDay(MapPush(map, ToDateString(currentDay), ev), ev,
                      SetDate(currentDay, currentDay.day + 1), endDay)
    ELSE map

\* page.tsx:391-417  the body of the loop over the events
AddEvent(map, ev) ==
  LET startDay == StartOfDay(LocalTime(DateOf(ev.start)))
      endDay == StartOfDay(LocalTime(DateOf(ev.end)))
      isMultiDay == GetTime(endDay) > GetTime(startDay)
  IN  IF isMultiDay
        THEN AddToEachDay(map, ev, startDay, endDay)
        ELSE MapPush(map, ToDateString(startDay), ev)

RECURSIVE AddEvents(_, _)
AddEvents(map, evs) ==
  IF evs = <<>> THEN map ELSE AddEvents(AddEvent(map, Head(evs)), Tail(evs))

\* page.tsx:419-422  every day's events are sorted by start
SortEach(map) == [b \in DOMAIN map |-> [map[b] EXCEPT !.arr = SortByStart(@)]]

\* page.tsx:425-427  the entries sorted by the date of their key (stable)
RECURSIVE InsertByKey(_, _)
InsertByKey(sorted, x) ==
  IF sorted = <<>> THEN <<x>>
  ELSE IF DayOfKey(Head(sorted).key) - DayOfKey(x.key) <= 0
    THEN <<Head(sorted)>> \o InsertByKey(Tail(sorted), x)
    ELSE <<x>> \o sorted

\* byDay without the sort of lines 425-427: the entries in insertion order.
SortByKeyOmitted(s) == s

RECURSIVE SortByKey(_)
SortByKey(s) ==
  IF s = <<>> THEN <<>>
  ELSE InsertByKey(SortByKey(SubSeq(s, 1, Len(s) - 1)), s[Len(s)])

\* page.tsx:376-428  the function given to useMemo, for the events evs on
\* local day day
ByDay(evs, day) ==
  SortByKey(SortEach(AddEvents(Seed(<<>>, StartOfDay([day |-> day, hour |-> 0]), 0), evs)))

\* The local dates of the render (days are numbered from 1; 0 is no day).
Todays == {2, 3}

\* The events the page can hold on local day day: occurrences that start
\* between yesterday and the day before the last seeded one and last up to
\* MaxSpan instants, which takes the longest beyond the seeded days, in the
\* order of their start (as the events API returns them); the k-th is titled
\* "E<k>".
Spans(day) ==
  {[start |-> st, end |-> st + d] :
     st \in ((day - 1) * DayLength)..((day + SeededDays - 1) * DayLength - 1),
     d \in 0..MaxSpan}

\* Both ends of the occurrence are instants of the local clock.
Exists(span) ==
  Existing(LocalTime(span.start)) = LocalTime(span.start)
    /\ Existing(LocalTime(span.end)) = LocalTime(span.end)

InStartOrder(sp) == \A k \in 1..(Len(sp) - 1) : sp[k].start <= sp[k + 1].start

ShownEvent(span, k) ==
  [start |-> ToISOString(span.start), end |-> ToISOString(span.end),
   title |-> "E" \o ToString(k)]

EventLists(day) ==
  {[k \in DOMAIN sp |-> ShownEvent(sp[k], k)] :
     sp \in {x \in SeqsUpTo({y \in Spans(day) : Exists(y)}, MaxShown) :
                InStartOrder(x)}}

\* UseMemo that computes the value at every render.
UseMemoAlways(prev, deps, newDeps, value) == value

\* page.tsx:377,428  useMemo(() => ..., [events]): the value of the render
\* before unless the dependency is another object than it was then
UseMemo(prev, deps, newDeps, value) == IF deps = newDeps THEN prev ELSE value

\* page.tsx:376  the component renders for the first time: useMemo computes
\* byDay
Render ==
  /\ byDay = <<>>
  /\ byDay' = UseMemo(byDay, memoDeps, eventsRef, ByDay(events, today))
  /\ memoDeps' = eventsRef
  /\ UNCHANGED <<today, skipped, eventsRef>>
  /\ UNCHANGED exceptDay

\* The page holds some list of events on some local day, in a time zone
\* without a change of clocks at midnight or with one in two days' time;
\* nothing else moves.
DayInit ==
  /\ ServerInit
  /\ FetchOff
  /\ now = 0
  /\ error = Null
  /\ runs = <<>>
  /\ timers = <<>>
  /\ interval = TRUE
  /\ periodic = 0
  /\ last = NoLast
  /\ ConfigOff
  /\ WeatherOff
  /\ today \in Todays
  /\ skipped \in {0, today + 2}
  /\ events \in EventLists(today)
  /\ byDay = <<>>
  /\ eventsRef = 0
  /\ memoDeps = NoDeps

DayNext == Render

DaySpec == DayInit /\ [][DayNext]_vars

\* ------------------------------------------------- byDay across the days
\* The mounted page over several local days: loadEvents runs end, the date
\* changes, the page renders again.  The clock of the runs is left out: a run
\* may end, and a pending cooldown timer may fire, at any moment.
\* The lists a load can bring on local day day: none, or one occurrence that
\* starts on that day or the day before and is the shortest or the longest.
MemoLists(day) ==
  {<<>>} \cup {<<ShownEvent(sp, 1)>> :
                 sp \in {y \in Spans(day) : /\ Exists(y)
                                            /\ y.start < (day + 1) * DayLength
                                            /\ y.end - y.start \in {0, MaxSpan}}}

\* The bodies a load can meet on local day day: events, no events with a
\* warning, the error of a run without a successful feed, text that is no JSON.
MemoBodies(day) ==
  {Body("object", TRUE, evs, Absent, Absent) : evs \in MemoLists(day)}
    \cup {Body("object", TRUE, <<>>, Absent, "1 calendar(s) failed to load"),
          Body("object", TRUE, <<>>, "All calendars failed to load", Absent),
          Body("invalid", FALSE, <<>>, Absent, Absent)}

\* What a run can meet on local day day: an outcome of fetch that ends it, or
\* a JSON response and its body.
MemoResults(day) ==
  {[http |-> o, body |-> NoBody] : o \in {x \in HttpOutcomes : FetchBranch(x) # "json"}}
    \cup {[http |-> o, body |-> b] :
            o \in {x \in HttpOutcomes : FetchBranch(x) = "json"}, b \in MemoBodies(day)}

\* page.tsx:283  j.events is an array r.json() has just built: setEvents
\* stores another object than the state held
RefAfter(branch, ref) == IF branch = "L283" THEN ref + 1 ELSE ref

\* page.tsx:260-294,376-428  a loadEvents run ends, having met o and (if it
\* got as far as r.json()) body; a state that was set makes the page render.
LoadEnds(o, body) ==
  LET branch == IF FetchBranch(o) = "json" THEN JsonBranch(body) ELSE FetchBranch(o)
  IN  /\ byDay # <<>>
      /\ RefAfter(branch, eventsRef) <= MaxLoads
      /\ Len(TimersAfter(branch, timers, now)) <= MaxInFlight
      /\ events' = SetState(events, EventsAfter(branch, body, events))
      /\ error' = SetState(error, ErrorAfter(branch, error))
      /\ timers' = TimersAfter(branch, timers, now)
      /\ last' = [http |-> o, body |-> body, place |-> 1]
      /\ eventsRef' = RefAfter(branch, eventsRef)
      /\ byDay' = UseMemo(byDay, memoDeps, eventsRef', ByDay(events', today))
      /\ memoDeps' = eventsRef'
      /\ UNCHANGED <<now, runs, interval, periodic, today, skipped>>
      /\ UNCHANGED <<serverVars, fetchVars, configVars, weatherVars>>

\* page.tsx:267,275,288,293  a cooldown timer fires and starts a run
CooldownFires ==
  /\ timers # <<>>
  /\ timers' = Tail(timers)
  /\ UNCHANGED <<now, events, error, runs, interval, periodic, last>>
  /\ UNCHANGED <<dayVars, serverVars, fetchVars, configVars, weatherVars>>

\* Local midnight passes.
DayRolls ==
  /\ byDay # <<>>
  /\ today < LastDay
  /\ today' = today + 1
  /\ UNCHANGED <<skipped, byDay, eventsRef, memoDeps>>
  /\ UNCHANGED exceptDay

\* page.tsx:255-257,376  the page renders again because another state of it
\* (weather, error, ripples) was set
Rerender ==
  /\ byDay # <<>>
  /\ byDay' = UseMemo(byDay, memoDeps, eventsRef, ByDay(events, today))
  /\ memoDeps' = eventsRef
  /\ UNCHANGED <<today, skipped, eventsRef>>
  /\ UNCHANGED exceptDay

\* The page after its first render on some local day, without events.
MemoInit ==
  /\ ServerInit
  /\ ClientInit
  /\ FetchOff
  /\ ConfigOff
  /\ WeatherOff
  /\ today \in Todays
  /\ skipped = 0
  /\ eventsRef = 0
  /\ memoDeps = 0
  /\ byDay = ByDay(<<>>, today)

MemoNext ==
  \/ \E r \in MemoResults(today) : LoadEnds(r.http, r.body)
  \/ CooldownFires
  \/ DayRolls
  \/ Rerender

MemoSpec == MemoInit /\ [][MemoNext]_vars

\* ---------------------------------------------------------- the weather API
\* weather/route.ts:6-32  WEATHER_CODES, for the codes 0 and 3
KnownCodes == {0, 3}
WeatherCode(code) ==
  IF code = 0 THEN [description |-> "Clear", icon |-> "sun"]
  ELSE [description |-> "Overcast", icon |-> "cloud"]

\* A weather_code the body lacks.
NoCode == -1

\* Math.round: the nearest integer, halves upwards; 0 for null, NaN for
\* undefined and NaN.
MathRound(v) ==
  IF v.kind = "number" THEN JsNumber((v.n + 5) \div 10)
  ELSE IF v.kind = "null" THEN JsNumber(0)
  ELSE JsNaN

\* JsonNumber that writes NaN as it is.
JsonNumberVerbatim(v) == v

\* JSON.stringify of a number or null: NaN becomes null.
JsonNumber(v) == IF v.kind = "number" THEN v ELSE JsNull

\* arr[0]
First(arr) == IF arr = <<>> THEN JsUndefined ELSE arr[1]

\* The bodies the forecast API may send, as parsed by res.json(): current and
\* daily may be missing; temperature_2m may be missing or null; the arrays of
\* daily may be empty.
WeatherBodies ==
  [current : [present : {TRUE},
              temperature_2m : {JsUndefined, JsNull, JsNumber(725), JsNumber(-5)},
              weather_code : {NoCode, 0, 3, 4}]
             \cup {[present |-> FALSE, temperature_2m |-> JsUndefined,
                    weather_code |-> NoCode]},
   daily : [present : {TRUE},
            temperature_2m_max : {<<>>, <<JsNumber(756)>>},
            temperature_2m_min : {<<>>, <<JsNumber(584)>>}]
           \cup {[present |-> FALSE, temperature_2m_max |-> <<>>,
                  temperature_2m_min |-> <<>>]}]

NoWeatherBody ==
  [current |-> [present |-> FALSE, temperature_2m |-> JsUndefined,
                weather_code |-> NoCode],
   daily |-> [present |-> FALSE, temperature_2m_max |-> <<>>,
              temperature_2m_min |-> <<>>]]

\* What one request to the forecast API can meet: fetch rejects, the timer
\* aborts it, a status that is not ok, a body that is no JSON object, a body.
ForecastOutcomes ==
  {[kind |-> k, data |-> NoWeatherBody] : k \in {"network", "abort", "http", "json"}}
    \cup [kind : {"ok"}, data : WeatherBodies]

\* What one request to the geocoding API can meet.
GeoOutcomes == {"found", "notfound", "http", "network"}

maxAttempts == 3
maxWeatherAttempts == 3

\* weather/route.ts:107-121  the message of the error one pass of the forecast
\* loop throws; Absent when the pass reaches the break.
ForecastError(o) ==
  IF o.kind = "network" THEN "fetch failed"
  ELSE IF o.kind = "abort" THEN "This operation was aborted"
  ELSE IF o.kind = "http" THEN "Weather API returned 500"
  ELSE IF o.kind = "json" THEN "Unexpected token < in JSON at position 0"
  ELSE IF ~o.data.current.present \/ o.data.current.temperature_2m = JsUndefined
    THEN "Invalid weather data structure"
  ELSE Absent

\* WeatherCatchResponse with the status of a server error.
WeatherCatchResponseStatus500(message) ==
  [status |-> 500, error |-> message,
   current |-> [temp |-> JsNull, condition |-> "Unavailable", icon |-> "thermometer"],
   today |-> [high |-> JsNull, low |-> JsNull]]

\* weather/route.ts:152-163 (part_000:90-101)  the catch block of GET
WeatherCatchResponse(message) ==
  [status |-> 200, error |-> message,
   current |-> [temp |-> JsNull, condition |-> "Unavailable", icon |-> "thermometer"],
   today |-> [high |-> JsNull, low |-> JsNull]]

\* weather/route.ts:137-151 (part_000:75-89)  from the parsed body to the
\* response; reading daily.temperature_2m_max of a body without daily, or
\* current.weather_code of one without current, throws a TypeError.
WeatherTryResponse(data) ==
  LET weatherCode == IF data.current.weather_code \in {NoCode, 0}
                       THEN 0 ELSE data.current.weather_code
      weatherInfo == IF weatherCode \in KnownCodes THEN WeatherCode(weatherCode)
                     ELSE [description |-> "Unknown", icon |-> "thermometer"]
  IN  [status |-> 200, error |-> Absent,
       current |-> [temp |-> JsonNumber(MathRound(data.current.temperature_2m)),
                    condition |-> weatherInfo.description,
                    icon |-> weatherInfo.icon],
       today |-> [high |-> JsonNumber(MathRound(First(data.daily.temperature_2m_max))),
                  low |-> JsonNumber(MathRound(First(data.daily.temperature_2m_min)))]]

Throws(data) == ~data.current.present \/ ~data.daily.present
TypeErrorMessage(data) ==
  IF ~data.current.present
    THEN "Cannot read properties of undefined (reading 'weather_code')"
    ELSE "Cannot read properties of undefined (reading 'temperature_2m_max')"

\* The response and the exit of GET once it holds the parsed body.
AfterBody(data) ==
  IF Throws(data)
    THEN [response |-> WeatherCatchResponse(TypeErrorMessage(data)), exit |-> "catch"]
    ELSE [response |-> WeatherTryResponse(data), exit |-> "try"]

\* A request for the weather arrives at handler h while ZIP_CODE is zip.
\* weather/route.ts:50-59 (part_000:33-40,58-62)
WeatherRequest(h, zip) ==
  /\ weatherPc \in {"idle", "done"}
  /\ handler' = h
  /\ zipCode' = zip
  /\ coords' = IF h = "part_000" /\ Truthy(zip) THEN "unset" ELSE "default"
  /\ attempts' = 0
  /\ weatherAttempts' = 0
  /\ weatherExit' = "none"
  /\ weatherResponse' = NoWeatherResponse
  /\ weatherPc' = IF Truthy(zip) THEN "geocoding" ELSE "forecast"
  /\ UNCHANGED exceptWeather

\* weather/route.ts:66-96  one pass of the geocoding loop meets g
GeoAttempt(g) ==
  /\ weatherPc = "geocoding"
  /\ handler = "route.ts"
  /\ IF g = "found"
       THEN /\ coords' = "geocoded"
            /\ attempts' = attempts
            /\ weatherPc' = "forecast"
       ELSE /\ coords' = coords
            /\ attempts' = attempts + 1
            /\ weatherPc' = IF attempts + 1 = maxAttempts THEN "forecast" ELSE "geoWait"
  /\ UNCHANGED <<handler, zipCode, weatherAttempts, weatherExit, weatherResponse>>
  /\ UNCHANGED exceptWeather

\* weather/route.ts:94  the wait before the next geocoding attempt ends
GeoWaitEnds ==
  /\ weatherPc = "geoWait"
  /\ weatherPc' = "geocoding"
  /\ UNCHANGED <<handler, zipCode, coords, attempts, weatherAttempts, weatherExit,
                 weatherResponse>>
  /\ UNCHANGED exceptWeather

\* weather/route.ts:107-163  one pass of the forecast loop meets o: on to the
\* response, or to the wait before the next pass, or (after the last pass)
\* to the catch block of GET.
ForecastAttempt(o) ==
  /\ weatherPc = "forecast"
  /\ handler = "route.ts"
  /\ IF ForecastError(o) = Absent
       THEN /\ weatherAttempts' = weatherAttempts
            /\ weatherResponse' = AfterBody(o.data).response
            /\ weatherExit' = AfterBody(o.data).exit
            /\ weatherPc' = "done"
       ELSE /\ weatherAttempts' = weatherAttempts + 1
            /\ IF weatherAttempts + 1 = maxWeatherAttempts
                 THEN /\ weatherResponse' =
                           WeatherCatchResponse("Weather API failed after 3 attempts: "
                                                  \o ForecastError(o))
                      /\ weatherExit' = "catch"
                      /\ weatherPc' = "done"
                 ELSE /\ weatherResponse' = weatherResponse
                      /\ weatherExit' = weatherExit
                      /\ weatherPc' = "forecastWait"
  /\ UNCHANGED <<handler, zipCode, coords, attempts>>
  /\ UNCHANGED exceptWeather

\* weather/route.ts:132  the wait before the next forecast attempt ends
ForecastWaitEnds ==
  /\ weatherPc = "forecastWait"
  /\ weatherPc' = "forecast"
  /\ UNCHANGED <<handler, zipCode, coords, attempts, weatherAttempts, weatherExit,
                 weatherResponse>>
  /\ UNCHANGED exceptWeather

\* part_000:41-57  the one geocoding request of the earlier handler meets g
LegacyGeo(g) ==
  /\ weatherPc = "geocoding"
  /\ handler = "part_000"
  /\ IF g = "found"
       THEN /\ coords' = "geocoded"
            /\ weatherPc' = "forecast"
            /\ UNCHANGED <<weatherExit, weatherResponse>>
       ELSE /\ coords' = coords
            /\ weatherResponse' = WeatherCatchResponse(
                  IF g = "notfound" THEN "Could not find location for zip code: z"
                  ELSE IF g = "http" THEN "Geocoding API failed"
                  ELSE "fetch failed")
            /\ weatherExit' = "catch"
            /\ weatherPc' = "done"
  /\ UNCHANGED <<handler, zipCode, attempts, weatherAttempts>>
  /\ UNCHANGED exceptWeather

\* part_000:64-101  the one forecast request of the earlier handler meets o
LegacyForecast(o) ==
  /\ weatherPc = "forecast"
  /\ handler = "part_000"
  /\ IF o.kind = "ok"
       THEN /\ weatherResponse' = AfterBody(o.data).response
            /\ weatherExit' = AfterBody(o.data).exit
       ELSE /\ weatherResponse' = WeatherCatchResponse(ForecastError(o))
            /\ weatherExit' = "catch"
  /\ weatherPc' = "done"
  /\ UNCHANGED <<handler, zipCode, coords, attempts, weatherAttempts>>
  /\ UNCHANGED exceptWeather

ZipCodes == {Absent, "", "z"}

WeatherNext ==
  \/ \E h \in {"route.ts", "part_000"}, zip \in ZipCodes : WeatherRequest(h, zip)
  \/ \E g \in GeoOutcomes : GeoAttempt(g)
  \/ GeoWaitEnds
  \/ \E o \in ForecastOutcomes : ForecastAttempt(o)
  \/ ForecastWaitEnds
  \/ \E g \in GeoOutcomes : LegacyGeo(g)
  \/ \E o \in ForecastOutcomes \ {[kind |-> "abort", data |-> NoWeatherBody]} : LegacyForecast(o)

WeatherSpec == Init /\ [][WeatherNext]_vars

\* ------------------------------------------------------ texts of an instance
\* Runs of GET over one feed whose instances carry any combination of a
\* missing, an empty and a filled summary, location and description.
TextValues(t) == {Absent, "", t}

TextItems ==
  [start : {1}, valid : {TRUE}, summary : TextValues("S"),
   location : TextValues("L"), description : TextValues("D")]

TextCalendars == [parsable : {TRUE}, items : SeqsUpTo(TextItems, MaxItems)]

\* A request arrives while ICS_URLS names one feed.
Request ==
  /\ StartWith([set |-> TRUE, entries |-> <<"u">>])
  /\ UNCHANGED exceptServer

\* route.ts:12-30  the first attempt of the feed returns calendar c
Fetched(c) ==
  /\ pc = "fetching"
  /\ feeds[1].st = "fetching"
  /\ feeds' = [feeds EXCEPT ![1] = AfterAttempt(@, [kind |-> "ok",
                                         text |-> [marker |-> TRUE, cal |-> c]])]
  /\ UNCHANGED <<pc, icsUrls, merged, successCount, failCount, exit, response>>
  /\ UNCHANGED exceptServer

TextNext ==
  \/ Request
  \/ \E c \in TextCalendars : Fetched(c)
  \/ FanIn
  \/ Respond

TextSpec == Init /\ [][TextNext]_vars

\* ================================================================ claims
\* Feed i (counting from 1) was fetched and parsed successfully / failed.
FeedOk(i) == feeds[i].st = "fulfilled" /\ feeds[i].value.cal.parsable
FeedFailed(i) ==
  feeds[i].st = "rejected" \/ (feeds[i].st = "fulfilled" /\ ~feeds[i].value.cal.parsable)

\* How many entries of evs start at instant t and carry sourceIndex idx.
CountIn(evs, t, idx) ==
  Cardinality({k \in DOMAIN evs : DateOf(evs[k].start) = t /\ evs[k].sourceIndex = idx})

\* How many convertible instances starting at t feed i (counting from 1) holds.
InstancesOf(i, t) ==
  LET items == feeds[i].value.cal.items
  IN  Cardinality({k \in DOMAIN items : items[k].valid /\ items[k].start = t})

\* The number of convertible instances of all successful feeds.
RECURSIVE TotalInstances(_)
TotalInstances(i) ==
  IF i = 0 THEN 0
  ELSE TotalInstances(i - 1)
         + (IF FeedOk(i) THEN Cardinality({k \in DOMAIN feeds[i].value.cal.items :
                                             feeds[i].value.cal.items[k].valid})
                         ELSE 0)

\* The run answered from one of the return statements after the merge.
AnsweredAfterMerge == pc = "done" /\ exit \in {"L146", "L152"}

\* C1: when at least one feed was fetched and parsed successfully (and no
\* unexpected exception reached the catch block), the response carries no
\* error and its events are exactly the instances of the successful feeds,
\* each tagged with the 0-based position of its feed; nothing of a failed feed.
C1_SuccessfulFeedsMerged ==
  (AnsweredAfterMerge /\ \E i \in DOMAIN feeds : FeedOk(i)) =>
    /\ response.error = Absent
    /\ Len(response.events) = TotalInstances(Len(feeds))
    /\ \A i \in DOMAIN feeds : \A t \in Starts :
         CountIn(response.events, t, i - 1) = (IF FeedOk(i) THEN InstancesOf(i, t) ELSE 0)

\* C1 witness: one feed failed, another delivered instances, and they were sent.
C1_Witness ==
  /\ AnsweredAfterMerge
  /\ \E i, j \in DOMAIN feeds : FeedFailed(i) /\ FeedOk(j) /\ i < j
  /\ response.events # <<>>

\* C2: when every configured feed failed, the response has error set and
\* events empty.
C2_TotalFailureReported ==
  (pc = "done" /\ feeds # <<>> /\ \A i \in DOMAIN feeds : FeedFailed(i)) =>
    /\ response.error # Absent
    /\ response.events = <<>>

\* C2 witness: two feeds, one exhausted its attempts, one failed at parsing.
C2_Witness ==
  /\ pc = "done" /\ exit = "L146"
  /\ \E i, j \in DOMAIN feeds :
       feeds[i].st = "rejected" /\ feeds[j].st = "fulfilled" /\ FeedFailed(j)

PartialFailure ==
  /\ \E i \in DOMAIN feeds : FeedOk(i)
  /\ \E i \in DOMAIN feeds : FeedFailed(i)

\* C3: a run with a successful and a failed feed answers with warning set, no
\* error and only occurrences of successful feeds; no other response carries
\* a warning.
C3_WarningIffPartial ==
  pc = "done" =>
    /\ (exit \in {"L146", "L152"} /\ PartialFailure) =>
         /\ response.warning # Absent
         /\ response.error = Absent
         /\ \A k \in DOMAIN response.events :
              \E i \in DOMAIN feeds : FeedOk(i) /\ response.events[k].sourceIndex = i - 1
    /\ response.warning # Absent => PartialFailure

\* C3 witness: a partial failure was answered with events and a warning.
C3_Witness ==
  /\ pc = "done" /\ PartialFailure
  /\ response.warning # Absent /\ response.events # <<>>

\* C4: in every response, error present implies events empty.
C4_ErrorImpliesNoEvents ==
  response.error # Absent => response.events = <<>>

\* C4 witness: an exception reached the catch block after a non-empty merge.
C4_Witness ==
  /\ pc = "done" /\ exit = "L159"
  /\ merged # <<>>
  /\ response.error # Absent

\* C5: whatever the feeds did and whether or not an exception was raised
\* after the fan-in, a run ends at one of the five return statements of GET
\* with a response of status 200 (an events list with or without error),
\* never with the escape of an exception.
C5_AlwaysAnswers ==
  pc = "done" => /\ response.status = 200
                 /\ exit \in {"L56", "L62", "L146", "L152", "L159"}
                 /\ exit = "L159" => response.error \in ThrownMessages

\* C5 witness: a rejected feed, a feed with an inconvertible instance, and an
\* exception after the fan-in, answered from the catch block.
C5_Witness ==
  /\ pc = "done" /\ exit = "L159" /\ response.status = 200
  /\ \E i, j \in DOMAIN feeds :
       /\ feeds[i].st = "rejected"
       /\ FeedOk(j)
       /\ \E k \in DOMAIN feeds[j].value.cal.items : ~feeds[j].value.cal.items[k].valid

\* ------------------------------------------------------- claims: the page
\* What the claims call a failed loadEvents run, by what the run received: a
\* rejected fetch, a non-OK status, a content type that is not JSON, a body
\* that is no JSON object, a body with an error field, a body without events.
FailedRun(l) ==
  \/ l.http.kind = "reject"
  \/ l.http.kind = "response" /\ ~l.http.ok
  \/ l.http.kind = "response" /\ l.http.ctype # "application/json"
  \/ l.body.shape \in {"invalid", "null"}
  \/ l.body.shape = "object" /\ (l.body.error # Absent \/ ~l.body.hasEvents)

\* This step ends a loadEvents run (last' is what that run received).
RunEnds == Len(runs') < Len(runs)

\* C6: a loadEvents run that ends in failure leaves the displayed events as
\* they were.
C6_FailureKeepsEvents ==
  [][(RunEnds /\ FailedRun(last')) => events' = events]_vars

\* C6 witness: events are on display and the run that finished last failed.
C6_Witness ==
  /\ events # <<>>
  /\ last # NoLast /\ FailedRun(last)
  /\ timers # <<>>

\* C7: a run that ends in failure schedules exactly one follow-up, due 5
\* minutes later; a run that ends with a valid response schedules none; no
\* other step schedules one, and a pending follow-up fires when it is due.
C7_OneCooldownPerFailure ==
  /\ [][IF RunEnds
          THEN IF FailedRun(last') THEN timers' = Append(timers, now + 5)
                                   ELSE timers' = timers
          ELSE Len(timers') <= Len(timers)]_vars
  /\ [](\A k \in DOMAIN timers : now <= timers[k] /\ timers[k] <= now + 5)

\* C7 witness: a run has just failed after an earlier success, and its one
\* follow-up is the only one pending, due in 5 minutes.
C7_Witness ==
  /\ last # NoLast /\ FailedRun(last)
  /\ events # <<>>
  /\ Len(timers) = 1 /\ timers[1] = now + 5
  /\ now > 0

\* C8: as long as the interval is not cleared by the unmount, every minute
\* starts a periodic run, whatever earlier runs did and whatever follow-ups
\* are pending; only the unmount clears the interval.
C8_PeriodicCadence ==
  /\ [](interval => periodic \in {now - 1, now})
  /\ [][(interval /\ now' # now) => periodic = now]_vars
  /\ [][interval' = interval \/ Unmount]_vars

\* C8 witness: three failures without a success in between, follow-ups
\* pending, and the periodic run of the minute has started all the same.
C8_Witness ==
  /\ interval /\ now >= 3 /\ periodic = now
  /\ Len(timers) >= 3
  /\ events = <<>>
  /\ FailedRun(last)

\* C9 (as claimed): after a failed loadEvents run the error notice state is
\* not null.
C9_NoticeAfterFailure ==
  (last # NoLast /\ FailedRun(last)) => error # Null

\* C10: on the mounted page, a run that receives a body with a warning and no
\* error replaces the displayed events by the body's events and schedules no
\* follow-up.
C10_WarningIsSuccess ==
  [][(/\ RunEnds /\ interval
      /\ last'.body.shape = "object" /\ last'.body.hasEvents
      /\ last'.body.warning # Absent /\ last'.body.error = Absent)
       => (events' = last'.body.events /\ timers' = timers)]_vars

\* C10 witness: the events of a partial-failure response are on display and
\* no follow-up is pending.
C10_Witness ==
  /\ interval
  /\ last.body.shape = "object" /\ last.body.warning # Absent
  /\ last.body.error = Absent
  /\ events = last.body.events /\ events # <<>>
  /\ timers = <<>>

\* The fetchIcs call of feed i (counting from 1) has returned or has thrown.
HasSettled(i) == feeds[i].st \in {"fulfilled", "rejected"}

\* C15: within one run of GET nothing is parsed, counted or merged and no
\* response is produced while the fetchIcs call of some configured feed is
\* still attempting or waiting; once the run has merged or answered after the
\* fan-out, there is one settled call per configured feed.
C15_FanInBarrier ==
  /\ pc = "fetching" =>
       /\ merged = <<>> /\ successCount = 0 /\ failCount = 0
       /\ response = NoResponse /\ exit = "none"
  /\ (pc = "merged" \/ (pc = "done" /\ exit \in {"L146", "L152", "L159"})) =>
       /\ Len(feeds) = Len(icsUrls)
       /\ \A i \in DOMAIN feeds : HasSettled(i)

\* A run over two feeds answered with events although one call exhausted its
\* attempts.
C15_Witness ==
  /\ pc = "done" /\ exit = "L152"
  /\ Len(feeds) = 2
  /\ \E i \in DOMAIN feeds : feeds[i].st = "rejected"
  /\ response.events # <<>>

\* C16: the events of every success or partial-success response are sorted
\* non-decreasing by start: no entry starts later than its successor.
C16_SortedByStart ==
  (AnsweredAfterMerge /\ response.error = Absent) =>
    \A k \in 1..(Len(response.events) - 1) :
      DateOf(response.events[k].start) <= DateOf(response.events[k + 1].start)

\* The first feed holds later instances than the second one, so the order of
\* the merge is not the order of the response.
C16_Witness ==
  /\ AnsweredAfterMerge /\ response.error = Absent
  /\ Len(feeds) = 2 /\ FeedOk(1) /\ FeedOk(2)
  /\ Len(response.events) >= 3
  /\ \E k \in DOMAIN feeds[1].value.cal.items, l \in DOMAIN feeds[2].value.cal.items :
       /\ feeds[1].value.cal.items[k].valid /\ feeds[2].value.cal.items[l].valid
       /\ feeds[1].value.cal.items[k].start > feeds[2].value.cal.items[l].start

\* The place of response entry e in the expansion of its own feed.
ExpansionIndex(e) ==
  CHOOSE k \in DOMAIN feeds[e.sourceIndex + 1].value.cal.items :
    feeds[e.sourceIndex + 1].value.cal.items[k].summary = e.title

\* C17: entries of the response with equal start keep their encounter order:
\* the one of the feed with the lower sourceIndex comes first, and two of the
\* same feed stay in the order in which the expansion produced them.
C17_TiesKeepEncounterOrder ==
  (AnsweredAfterMerge /\ response.error = Absent) =>
    \A p, q \in DOMAIN response.events :
      (p < q /\ response.events[p].start = response.events[q].start) =>
        \/ response.events[p].sourceIndex < response.events[q].sourceIndex
        \/ /\ response.events[p].sourceIndex = response.events[q].sourceIndex
           /\ ExpansionIndex(response.events[p]) < ExpansionIndex(response.events[q])

\* All four instances of two feeds start at the same instant.
C17_Witness ==
  /\ AnsweredAfterMerge /\ response.error = Absent
  /\ Len(response.events) = 4
  /\ \A p \in DOMAIN response.events : response.events[p].start = response.events[1].start
  /\ \E p, q \in DOMAIN response.events :
       response.events[p].sourceIndex # response.events[q].sourceIndex

\* The instances of feed i and its successors that start at instant t, in
\* feed order and, within a feed, in expansion order.
RECURSIVE InstancesAt(_, _, _)
InstancesAt(t, i, k) ==
  IF i > Len(feeds) THEN <<>>
  ELSE IF ~FeedOk(i) \/ k > Len(feeds[i].value.cal.items) THEN InstancesAt(t, i + 1, 1)
  ELSE LET item == feeds[i].value.cal.items[k]
       IN  (IF item.valid /\ item.start = t
              THEN <<[start |-> ToISOString(t), title |-> item.summary,
                      location |-> Absent, description |-> Absent,
                      sourceIndex |-> i - 1]>>
              ELSE <<>>) \o InstancesAt(t, i, k + 1)

\* The instances of all successful feeds, instant by instant.
RECURSIVE InstancesFrom(_)
InstancesFrom(T) ==
  IF T = {} THEN <<>>
  ELSE LET t == CHOOSE x \in T : \A y \in T : x <= y
       IN  InstancesAt(t, 1, 1) \o InstancesFrom(T \ {t})

\* C18: the events a run returns, and their order, are determined by the
\* contents of the feeds (what each calendar expands to from the reference
\* instant on) alone: whatever the order in which the fetches completed and
\* however many attempts each needed, the response lists the instances of the
\* successful feeds instant by instant, feed by feed, in expansion order.
C18_DeterminedByContents ==
  (AnsweredAfterMerge /\ response.error = Absent) =>
    response.events = InstancesFrom(Starts)

\* Two successful feeds, three or more instances, not all at one instant.
C18_Witness ==
  /\ AnsweredAfterMerge /\ response.error = Absent
  /\ Len(feeds) = 2 /\ FeedOk(1) /\ FeedOk(2)
  /\ Len(response.events) >= 3
  /\ response.events[1].start # response.events[Len(response.events)].start
  /\ response.events[1].sourceIndex = 1

\* The console lines of the watched call that report a failed attempt.
FailedLines == {k \in DOMAIN console : console[k].message # "ok"}

\* C11: fetchIcs makes at most 3 attempts, the k-th console line is that of
\* attempt k, no attempt follows a successful one, and the call throws only
\* after 3 failed attempts; after failed attempt k < 3 it waits k seconds (the
\* next attempt starts when exactly k seconds have passed), and there is no
\* wait after the third failure.
C11_AttemptsAndBackoff ==
  /\ [](stage # "off" =>
         /\ Len(console) <= 3
         /\ \A k \in DOMAIN console : console[k].attempt = k
         /\ \A k \in DOMAIN console : k < Len(console) => k \in FailedLines
         /\ feeds[1].st = "fulfilled" => Len(console) \notin FailedLines
         /\ feeds[1].st = "rejected" => Len(console) = 3 /\ FailedLines = {1, 2, 3}
         /\ stage \in {"race", "text"} => feeds[1].attempt = Len(console) + 1
         /\ Len(waits) = Cardinality(FailedLines \ {3})
         /\ \A k \in DOMAIN waits : waits[k] = k
         /\ stage = "wait" => Len(console) < 3 /\ elapsed <= Len(console))
  /\ [][(stage = "wait" /\ stage' # "wait") =>
           (elapsed = Len(console) /\ stage' = "race")]_vars

\* The third attempt is running, two seconds after the second failure.
C11_Witness ==
  /\ stage = "race"
  /\ feeds[1].attempt = 3
  /\ waits = <<1, 2>>
  /\ elapsed > 0

\* C12: an attempt of fetchIcs does not outlast its 15-second timer: no
\* attempt is still awaiting the response or its body when more than 15
\* seconds have passed since it began.
C12_AttemptBoundedByTimeout ==
  stage \in {"race", "text"} => elapsed <= 15

\* C13: every failed attempt, whatever it failed with, takes the call from
\* attempt k to the same place: the console line of attempt k, then the wait
\* of k seconds when k < 3 and the throw when k = 3; and the payload of a
\* returned call always carries the BEGIN:VCALENDAR marker.
C13_FailuresAlike ==
  /\ [](stage # "off" =>
         /\ feeds[1].st = "fulfilled" => feeds[1].value.marker
         /\ \A k \in DOMAIN console :
              console[k].message = "ok" => (k = Len(console) /\ feeds[1].st = "fulfilled"))
  /\ [][(Len(console') > Len(console) /\ console'[Len(console')].message # "ok") =>
           /\ Len(console') = Len(console) + 1
           /\ console'[Len(console')].attempt = feeds[1].attempt
           /\ IF feeds[1].attempt < 3
                THEN /\ stage' = "wait"
                     /\ feeds'[1].st = "waiting"
                     /\ feeds'[1].attempt = feeds[1].attempt
                     /\ waits' = Append(waits, feeds[1].attempt)
                ELSE /\ stage' = "end"
                     /\ feeds'[1].st = "rejected"
                     /\ waits' = waits]_vars

\* A timeout, a payload without the marker and an HTTP error status, one
\* after the other, have used up the three attempts.
C13_Witness ==
  /\ stage = "end"
  /\ feeds[1].st = "rejected"
  /\ Len(console) = 3
  /\ console[1].message = "Request timeout after 15s"
  /\ console[2].message = "Response does not contain valid ICS calendar data"
  /\ console[3].message = "HTTP error status"
  /\ waits = <<1, 2>>

\* C14: when all 3 attempts have failed the call has thrown one error, whose
\* message carries the message of the third attempt's error, and a call that
\* has thrown stays as it is.
C14_LastErrorReported ==
  /\ []((stage # "off" /\ FailedLines = {1, 2, 3}) =>
         /\ feeds[1].st = "rejected"
         /\ feeds[1].reason = "Failed to fetch ICS after 3 attempts: " \o console[3].message)
  /\ [][(stage # "off" /\ feeds[1].st = "rejected") => feeds'[1] = feeds[1]]_vars

\* The three attempts failed with three different errors.
C14_Witness ==
  /\ stage = "end"
  /\ feeds[1].st = "rejected"
  /\ Len(console) = 3
  /\ console[3].message # console[2].message
  /\ console[3].message # console[1].message
  /\ console[3].message = "terminated"

\* The bucket of local day d, when the bucket list has one.
HasBucket(d) == \E b \in DOMAIN byDay : byDay[b].key.dateString = d

\* How often the event ev is listed in bucket b.
TimesIn(b, ev) == Cardinality({k \in DOMAIN byDay[b].arr : byDay[b].arr[k] = ev})

\* C19: whatever the events, the empty list included, the computed bucket
\* list has a bucket for each of today, today+1, today+2 and today+3.
C19_FourDaysPresent ==
  byDay # <<>> => \A i \in 0..3 : HasBucket(today + i)

\* The bucket list computed for no events: four empty buckets.
C19_Witness ==
  /\ byDay # <<>>
  /\ events = <<>>
  /\ Len(byDay) = 4
  /\ \A b \in DOMAIN byDay : byDay[b].arr = <<>>

\* C20: in the computed bucket list, an occurrence whose local end-day is
\* later than its local start-day is listed exactly once in the bucket of
\* every day from start-day to end-day, both included, each of which exists,
\* and in no other bucket; an occurrence that starts and ends on one day is
\* listed exactly once in that day's bucket and in no other.
C20_MultiDayBuckets ==
  byDay # <<>> =>
    \A k \in DOMAIN events :
      LET startDay == DateOf(events[k].start) \div DayLength
          endDay == DateOf(events[k].end) \div DayLength
      IN  /\ \A d \in startDay..endDay : HasBucket(d)
          /\ \A b \in DOMAIN byDay :
               TimesIn(b, events[k]) =
                 IF byDay[b].key.dateString \in startDay..endDay THEN 1 ELSE 0

C22_LastValidResponseShown ==
  [][IF RunEnds /\ interval /\ ~FailedRun(last')
       THEN events' = last'.body.events
       ELSE events' = events]_vars

\* The run that was started later has ended first, with a valid response
\* without events, while the older run is still in flight; the page shows
\* no events.
C22_Witness ==
  /\ interval
  /\ last.place > 1
  /\ ~FailedRun(last) /\ last.body.events = <<>>
  /\ events = <<>>
  /\ Len(runs) >= 1
  /\ now > 0

\* C30: follow-ups are neither coalesced nor cancelled: a run that ends in
\* failure adds its own follow-up behind those already pending, a run that
\* ends with a valid response removes none, the unmount removes none, and a
\* follow-up leaves the list only by firing, which starts a run.
C30_FollowUpsPileUp ==
  /\ [][(RunEnds /\ FailedRun(last')) =>
          (Len(timers') = Len(timers) + 1 /\ SubSeq(timers', 1, Len(timers)) = timers)]_vars
  /\ [][(RunEnds /\ ~FailedRun(last')) => timers' = timers]_vars
  /\ [][(interval /\ ~interval') => timers' = timers]_vars
  /\ [][Len(timers') < Len(timers) =>
          /\ Len(timers') = Len(timers) - 1
          /\ \E k \in DOMAIN timers : timers[k] <= now
          /\ Len(runs') = Len(runs) + 1]_vars

\* Two follow-ups of two failed runs are pending, due at different minutes,
\* after a valid response was processed.
C30_Witness ==
  /\ Len(timers) >= 2
  /\ timers[1] < timers[2]
  /\ ~FailedRun(last) /\ last # NoLast

\* The feeds named in a value of ICS_URLS.
IsFeed(s) == s \in {"u", "v"}
NamedFeeds(raw) == IF raw.set THEN SelectSeq(raw.entries, IsFeed) ELSE <<>>

\* C23: a run of GET uses the configuration that was current when it was
\* triggered: its feeds are those ICS_URLS named then, and its range ends as
\* many days after now as DAYS_AHEAD said then (30 when unset).
C23_ConfigCurrent ==
  pc # "idle" =>
    /\ icsUrls = NamedFeeds(seen.ICS_URLS)
    /\ icsUrls # <<>> => rangeEnd = IF seen.DAYS_AHEAD = Absent THEN 30 ELSE 7

\* C26: a run triggered while ICS_URLS is unset, blank or holds only
\* separators and white space has answered at once, with status 200, no
\* events and an error, and has called fetchIcs for no feed.
C26_NoFeedsConfigured ==
  (pc # "idle" /\ NamedFeeds(seen.ICS_URLS) = <<>>) =>
    /\ pc = "done"
    /\ response.status = 200
    /\ response.events = <<>>
    /\ response.error \in {"ICS_URLS not set", "No valid ICS URLs"}
    /\ feeds = <<>>

\* After a run over one feed, ICS_URLS was set to separators only and the
\* next run answered with the error.
C26_Witness ==
  /\ pc = "done"
  /\ seen.ICS_URLS.set /\ seen.ICS_URLS.entries = <<"", "">>
  /\ response.error = "No valid ICS URLs"
  /\ env = seen

\* The numbers of feeds of the run that succeeded / failed.
Succeeded == Cardinality({i \in DOMAIN feeds : FeedOk(i)})
Failed == Cardinality({i \in DOMAIN feeds : FeedFailed(i)})

\* C27: a run that went through the fan-in and answered has counted every
\* configured feed exactly once, as succeeded or as failed, and its response
\* has exactly one of three forms: events without error and warning when no
\* feed failed, events with a warning when some succeeded and some failed,
\* an error without events when none succeeded.
C27_ThreeOutcomes ==
  AnsweredAfterMerge =>
    /\ successCount = Succeeded /\ failCount = Failed
    /\ successCount + failCount = Len(icsUrls)
    /\ Len(icsUrls) > 0
    /\ (failCount = 0) <=> (response.error = Absent /\ response.warning = Absent)
    /\ (successCount > 0 /\ failCount > 0) <=>
         (response.error = Absent /\ response.warning # Absent)
    /\ (successCount = 0) <=> (response.error # Absent /\ response.events = <<>>)

\* Of two feeds one returned a payload that cannot be parsed, the other a
\* calendar: the run ended partially failed.
C27_Witness ==
  /\ AnsweredAfterMerge
  /\ Len(icsUrls) = 2
  /\ successCount = 1 /\ failCount = 1
  /\ \E i \in DOMAIN feeds : feeds[i].st = "fulfilled" /\ ~feeds[i].value.cal.parsable
  /\ response.warning # Absent

\* The entries of the response that come from feed i (counting from 1).
EntriesOf(i) == {p \in DOMAIN response.events : response.events[p].sourceIndex = i - 1}

\* C28: an instance that cannot be built is skipped alone: a parsable feed
\* with such instances is counted as succeeded, every other instance of it is
\* in the response, and the response has no further entry of that feed.
C28_BadOccurrenceSkipped ==
  AnsweredAfterMerge =>
    /\ successCount = Cardinality({i \in DOMAIN feeds :
                        feeds[i].st = "fulfilled" /\ feeds[i].value.cal.parsable})
    /\ \A i \in DOMAIN feeds :
         (feeds[i].st = "fulfilled" /\ feeds[i].value.cal.parsable) =>
           LET items == feeds[i].value.cal.items
               good == {k \in DOMAIN items : items[k].valid}
           IN  /\ Cardinality(EntriesOf(i)) = Cardinality(good)
               /\ \A k \in good :
                    \E p \in EntriesOf(i) :
                      /\ response.events[p].title = items[k].summary
                      /\ response.events[p].start.iso = items[k].start

\* The only feed holds an instance that cannot be built followed by one that
\* can: the response lists the second one, without warning.
C28_Witness ==
  /\ AnsweredAfterMerge
  /\ Len(feeds) = 1 /\ FeedOk(1)
  /\ Len(feeds[1].value.cal.items) = 2
  /\ ~feeds[1].value.cal.items[1].valid /\ feeds[1].value.cal.items[2].valid
  /\ Len(response.events) = 1 /\ response.events[1].title = "E2"
  /\ response.warning = Absent /\ successCount = 1

\* The settled results with every payload that cannot be parsed replaced by
\* an exhausted fetch.
AsRejected(results) ==
  [i \in DOMAIN results |->
     IF results[i].st = "fulfilled" /\ ~results[i].value.cal.parsable
       THEN [results[i] EXCEPT !.st = "rejected", !.value = NoText,
                               !.reason = GiveUpMessage("fetch failed")]
       ELSE results[i]]

\* C29: a feed whose payload cannot be parsed counts like a feed whose fetch
\* was exhausted: the run counts it as failed, no entry of the response comes
\* from it, the response is the one the run would give had the fetch of that
\* feed been exhausted, and from the fan-in on the run changes neither the
\* settled calls nor the merged list (no second fetch, no second parse).
C29_ParseFailureIsFeedFailure ==
  /\ [](AnsweredAfterMerge =>
         /\ failCount = Cardinality({i \in DOMAIN feeds :
                          feeds[i].st = "rejected" \/ ~feeds[i].value.cal.parsable})
         /\ \A i \in DOMAIN feeds : ~feeds[i].value.cal.parsable => EntriesOf(i) = {}
         /\ response = ResponseFor(AsRejected(feeds)))
  /\ [][pc = "merged" => (feeds' = feeds /\ merged' = merged)]_vars
  /\ [][(pc = "fetching" /\ pc' # "fetching") => feeds' = feeds]_vars

\* The payload of the only feed cannot be parsed: total failure; and: of two
\* feeds the first cannot be parsed, the second can.
C29_Witness ==
  /\ AnsweredAfterMerge
  /\ Len(feeds) = 2
  /\ feeds[1].st = "fulfilled" /\ ~feeds[1].value.cal.parsable
  /\ FeedOk(2)
  /\ response.events # <<>>
  /\ response.warning = "1 calendar(s) failed to load"

\* C24: every occurrence of a response carries a title that is not empty,
\* the summary of its instance or "(No title)" when the instance has no or an
\* empty summary; its location and its description are those of the instance
\* or are left out when the instance has none or an empty one, and are never
\* the empty string.  (All instances of TextSpec start at the same instant,
\* so the k-th occurrence comes from the k-th instance.)
C24_TitleAndOptionalTexts ==
  AnsweredAfterMerge =>
    /\ Len(response.events) = Len(feeds[1].value.cal.items)
    /\ \A k \in DOMAIN response.events :
         LET e == response.events[k]
             item == feeds[1].value.cal.items[k]
         IN  /\ e.title \notin {"", Absent}
             /\ e.title = (IF item.summary \in {"", Absent}
                             THEN "(No title)" ELSE item.summary)
             /\ e.location # ""
             /\ e.location = (IF item.location \in {"", Absent}
                                THEN Absent ELSE item.location)
             /\ e.description # ""
             /\ e.description = (IF item.description \in {"", Absent}
                                   THEN Absent ELSE item.description)

\* Two instances: the first with an empty summary and an empty location, the
\* second without summary, with a location and an empty description.
C24_Witness ==
  /\ AnsweredAfterMerge
  /\ Len(response.events) = 2
  /\ feeds[1].value.cal.items[1].summary = ""
  /\ feeds[1].value.cal.items[1].location = ""
  /\ feeds[1].value.cal.items[2].summary = Absent
  /\ feeds[1].value.cal.items[2].description = ""
  /\ response.events[1].title = "(No title)"
  /\ response.events[1].location = Absent
  /\ response.events[2].title = "(No title)"
  /\ response.events[2].location = "L"
  /\ response.events[2].description = Absent

\* ---------------------------------------------------- claims: the weather
IsNumberOrNull(v) == v = JsNull \/ (v.kind = "number" /\ v.n \in Int)

\* C25: whenever GET of the weather API has answered, it returned a response
\* (from the try block or from the catch block, nothing was thrown past it)
\* with status 200 whose temp, high and low are numbers or null and whose
\* condition and icon are texts; a run whose forecast loop used up its 3
\* attempts ended in the catch block, and every response of the catch block
\* has temp, high and low null and carries an error.
C25_WeatherFixedShape ==
  weatherPc = "done" =>
    /\ weatherExit \in {"try", "catch"}
    /\ weatherResponse.status = 200
    /\ IsNumberOrNull(weatherResponse.current.temp)
    /\ IsNumberOrNull(weatherResponse.today.high)
    /\ IsNumberOrNull(weatherResponse.today.low)
    /\ weatherResponse.current.condition \notin {Absent, ""}
    /\ weatherResponse.current.icon \notin {Absent, ""}
    /\ weatherAttempts = maxWeatherAttempts => weatherExit = "catch"
    /\ weatherExit = "catch" =>
         /\ weatherResponse.current.temp = JsNull
         /\ weatherResponse.today.high = JsNull
         /\ weatherResponse.today.low = JsNull
         /\ weatherResponse.error \notin {Absent, ""}

\* The geocoding of the ZIP code failed three times and so did the forecast
\* lookup, the last time by a timeout.
C25_Witness ==
  /\ weatherPc = "done"
  /\ handler = "route.ts"
  /\ attempts = maxAttempts
  /\ weatherAttempts = maxWeatherAttempts
  /\ weatherResponse.error = "Weather API failed after 3 attempts: This operation was aborted"
  /\ weatherResponse.current.temp = JsNull
  /\ weatherResponse.status = 200

\* ------------------------------------------------ claims: byDay and the date
\* C31: the bucket list changes only in a step in which a successful load
\* replaces the events state, and then it is computed from the new events and
\* has a bucket for each of today .. today+3 of the date of that step; the
\* passing of local midnight, a failed load and a render for another reason
\* leave the bucket list as it is.
C31_BucketsFollowLoads ==
  /\ [][byDay' # byDay =>
          /\ eventsRef' # eventsRef
          /\ ~FailedRun(last')
          /\ events' = last'.body.events]_vars
  /\ [][eventsRef' # eventsRef =>
          /\ ~FailedRun(last')
          /\ byDay' = ByDay(events', today')
          /\ \A i \in 0..(SeededDays - 1) :
               \E b \in DOMAIN byDay' : byDay'[b].key.dateString = today + i]_vars
  /\ [][(today' # today \/ (FailedRun(last') /\ last' # last)) => byDay' = byDay]_vars

\* The date has changed since an occurrence was loaded and the load that
\* ended last failed: the buckets are still those of the day before, the one
\* of today+3 is missing.
C31_Witness ==
  /\ eventsRef >= 1
  /\ events # <<>>
  /\ FailedRun(last)
  /\ HasBucket(today - 1)
  /\ \A i \in 0..2 : HasBucket(today + i)
  /\ ~HasBucket(today + 3)

\* ------------------------------------------- claims: responses that come late
\* C32: when the request of a timed-out attempt settles, the call stays as it
\* is: its attempt, its await, its timers and its console are untouched, so
\* the late response neither ends nor replaces the attempt under way and is
\* not returned.  While the call is at an attempt, the requests still in
\* flight without a listener are those of earlier attempts.  The call returns
\* a payload only out of the read of the body of the attempt under way, whose
\* race the timer has not settled.
C32_LateResponseDiscarded ==
  /\ [][(\E k \in abandoned : k \notin abandoned') =>
          /\ feeds' = feeds
          /\ stage' = stage
          /\ elapsed' = elapsed
          /\ console' = console
          /\ waits' = waits]_vars
  /\ [](stage \in {"race", "text"} => \A k \in abandoned : k < feeds[1].attempt)
  /\ [][(feeds[1].st # "fulfilled" /\ feeds'[1].st = "fulfilled") =>
          /\ stage = "text"
          /\ abandoned' = abandoned
          /\ feeds[1].attempt \notin abandoned
          /\ console' = Append(console, [attempt |-> feeds[1].attempt,
                                         message |-> "ok"])]_vars

\* The request of attempt 1 resolved with an OK status while the race of
\* attempt 2 was pending; all the same all three attempts timed out and the
\* call gave up, the requests of attempts 2 and 3 still in flight.
C32_Witness ==
  /\ late.attempt = 1 /\ late.outcome = "ok"
  /\ late.during = 2 /\ late.stage = "race"
  /\ stage = "end"
  /\ feeds[1].st = "rejected"
  /\ Len(console) = 3
  /\ \A n \in 1..3 : console[n].message = AttemptError([kind |-> "timeout", text |-> NoText])
  /\ abandoned = {2, 3}

====
